---- MODULE Spec2Model ----
(***************************************************************************)
(* Model of the record store of Invoice_gen (src/storage.py).              *)
(*                                                                         *)
(* A JSONL file is a pair [exists, lines]; a line is either BlankLine or   *)
(* the dict that json.loads returns for it.  A dict is a TLA+ function     *)
(* whose DOMAIN is the set of keys the dict has, so "key in row" is        *)
(* key \in DOMAIN row and row.get(key) is Get(row, key, default).          *)
(*                                                                         *)
(* The profile logs and the history log are separate files touched by      *)
(* disjoint sets of functions, so they are explored by two                 *)
(* specifications, SpecProfiles and SpecHistory, over the same variables.  *)
(* The settings document, the application handlers (src/app.py) and the    *)
(* document composer (src/pdf_generator.py) have specifications of their   *)
(* own further down.                                                       *)
(***************************************************************************)
EXTENDS Integers, Sequences, FiniteSets, TLC

VARIABLES
    seed,       \* SEED_FILE     (storage.py:9)
    local,      \* LOCAL_FILE    (storage.py:10)
    history,    \* HISTORY_FILE  (storage.py:11)
    disk,       \* the paths p for which Path(p).exists() is true
    call,       \* the last call: its name, the name of the call before it,
                \* its arguments, the list it read and its return value
    settings,   \* SETTINGS_FILE (storage.py:12)
    profiles,   \* InvoiceApp.profiles, the in-memory copy (app.py:205)
    now,        \* the wall clock, as an index into Instants
    ui          \* the selection variables of the window (app.py:207-210)

vars == <<seed, local, history, disk, call, settings, profiles, now, ui>>

---------------------------------------------------------------------------
(* Bounds                                                                  *)

MaxLocal == 3       \* lines the local profile log may grow to
MaxHistory == 3     \* lines the history log may grow to
MaxLimit == 4       \* largest limit passed to load_history

---------------------------------------------------------------------------
(* Python helpers                                                          *)

\* dict.get(key, default)
Get(row, key, default) == IF key \in DOMAIN row THEN row[key] ELSE default

Front(s) == SubSeq(s, 1, Len(s) - 1)

Last(s) == s[Len(s)]

\* Code-point order of the strings the model uses as sort keys
\* (str.__lt__): "" < upper case < lower case.
StringOrder == <<"", "Ann", "Bank", "Bob", "Pay", "Zed", "a", "b", "c">>

Rank(s) == CHOOSE i \in DOMAIN StringOrder : StringOrder[i] = s

\* A line that is empty after raw.strip().
BlankLine == [blank |-> TRUE]

AbsentFile == [exists |-> FALSE, lines |-> <<>>]

File(ls) == [exists |-> TRUE, lines |-> ls]

---------------------------------------------------------------------------
(* storage.py: file primitives                                             *)

\* _read_jsonl: [] for a missing file, blank lines skipped.
ReadJsonl(file) ==
    IF ~file.exists THEN <<>>
    ELSE SelectSeq(file.lines, LAMBDA raw : raw # BlankLine)

\* _write_jsonl: open(path, "w") truncates, then one line per record.
WriteJsonl(file, records) == [exists |-> TRUE, lines |-> records]

\* A write that opens in "w" mode instead of "a".
AppendJsonlTruncating(file, record) == [exists |-> TRUE, lines |-> <<record>>]

\* _append_jsonl: open(path, "a") creates the file if needed and adds a line.
AppendJsonl(file, record) ==
    [exists |-> TRUE, lines |-> Append(file.lines, record)]

---------------------------------------------------------------------------
(* storage.py: load_profiles                                               *)

BaseTypes == {"provider", "recipient", "payment_method"}

HasId(items, id) == \E i \in DOMAIN items : items[i].id = id

\* An overlay that keeps the first record of an id instead of the latest.
RECURSIVE ItemsByIdFirstWins(_)
ItemsByIdFirstWins(rows) ==
    IF rows = <<>> THEN <<>>
    ELSE LET prev == ItemsByIdFirstWins(Front(rows))
             row == Last(rows)
         IN  IF "id" \notin DOMAIN row \/ "type" \notin DOMAIN row THEN prev
             ELSE IF HasId(prev, row.id) THEN prev
             ELSE Append(prev, row)

\* An overlay keyed by the pair (id, type) instead of by id.
RECURSIVE ItemsByIdAndType(_)
ItemsByIdAndType(rows) ==
    IF rows = <<>> THEN <<>>
    ELSE LET prev == ItemsByIdAndType(Front(rows))
             row == Last(rows)
             same(i) == prev[i].id = row.id /\ prev[i].type = row.type
         IN  IF "id" \notin DOMAIN row \/ "type" \notin DOMAIN row THEN prev
             ELSE IF \E i \in DOMAIN prev : same(i)
                  THEN [i \in DOMAIN prev |-> IF same(i) THEN row ELSE prev[i]]
             ELSE Append(prev, row)

\* Lines 43-47: items_by_id after the loop over rows.  A Python dict keeps
\* its keys in order of first insertion and an assignment to an existing
\* key replaces the value in place, so the dict is the sequence of its
\* values in that order.
RECURSIVE ItemsById(_)
ItemsById(rows) ==
    IF rows = <<>> THEN <<>>
    ELSE LET prev == ItemsById(Front(rows))
             row == Last(rows)
         IN  IF "id" \notin DOMAIN row \/ "type" \notin DOMAIN row THEN prev
             ELSE IF HasId(prev, row.id)
                  THEN [i \in DOMAIN prev |->
                           IF prev[i].id = row.id THEN row ELSE prev[i]]
             ELSE Append(prev, row)

\* A deletion test that never fires.
IsDeletedNever(item) == FALSE

\* Line 51: item.get("_deleted") is truthy.
IsDeleted(item) == Get(item, "_deleted", FALSE) = TRUE

\* A key without the fallbacks to label and id.
SortKeyDisplayNameOnly(x) == Get(x, "display_name", "")

\* Line 56: x.get("display_name") or x.get("label") or x.get("id", "").
SortKey(x) ==
    IF Get(x, "display_name", "") # "" THEN x.display_name
    ELSE IF Get(x, "label", "") # "" THEN x.label
    ELSE Get(x, "id", "")

\* list.sort is stable: x goes after every element whose key is <= its key.
InsertSorted(sorted, x) ==
    LET n == Cardinality({i \in DOMAIN sorted :
                            Rank(SortKey(sorted[i])) <= Rank(SortKey(x))})
    IN  SubSeq(sorted, 1, n) \o <<x>> \o SubSeq(sorted, n + 1, Len(sorted))

RECURSIVE SortBucket(_)
SortBucket(bucket) ==
    IF bucket = <<>> THEN <<>>
    ELSE InsertSorted(SortBucket(Front(bucket)), Last(bucket))

\* Lines 49-57: drop deleted items, group by type (setdefault adds a group
\* for a type outside the three base ones), sort every group.
Grouped(items) ==
    LET live == SelectSeq(items, LAMBDA item : ~IsDeleted(item))
        types == BaseTypes \cup {live[i].type : i \in DOMAIN live}
    IN  [t \in types |->
            SortBucket(SelectSeq(live, LAMBDA item : item.type = t))]

load_profiles(seedFile, localFile) ==
    Grouped(ItemsById(ReadJsonl(seedFile) \o ReadJsonl(localFile)))

---------------------------------------------------------------------------
(* storage.py: history functions                                           *)

\* Python's items[-limit:] for limit >= 0.  -0 is 0, so the slice for
\* limit = 0 is items[0:], the whole list; a limit above len(items) is
\* clamped to the start of the list.
LastItems(items, limit) ==
    IF limit = 0 \/ limit >= Len(items) THEN items
    ELSE SubSeq(items, Len(items) - limit + 1, Len(items))

Reversed(s) == [i \in 1..Len(s) |-> s[Len(s) + 1 - i]]

\* Lines 76-78.
load_history(historyFile, limit) ==
    Reversed(LastItems(ReadJsonl(historyFile), limit))

\* A keep test that looks at the disk only.
PruneKeepsOnlyExisting(item, existing) ==
    Get(item, "output_path", "") \in existing

\* Lines 94-95: not path or Path(path).exists().
PruneKeeps(item, existing) ==
    \/ Get(item, "output_path", "") = ""
    \/ item.output_path \in existing

\* A removal that stops at the first matching entry.
RemoveKeptFirstOnly(items, output_path) ==
    LET hits == {i \in DOMAIN items :
                    Get(items[i], "output_path", "<None>") = output_path}
    IN  IF hits = {} THEN items
        ELSE LET k == CHOOSE i \in hits : \A j \in hits : i <= j
             IN  SubSeq(items, 1, k - 1) \o SubSeq(items, k + 1, Len(items))

\* Line 106: [i for i in items if i.get("output_path") != output_path].
\* output_path is a str, so an entry without the key (None) is kept.
RemoveKept(items, output_path) ==
    SelectSeq(items, LAMBDA i : Get(i, "output_path", "<None>") # output_path)

---------------------------------------------------------------------------
(* storage.py: settings                                                    *)

\* A dict without keys.
EmptyDict == [k \in {} |-> ""]

\* The settings file holds one JSON document; doc is the value json.load
\* returns for it.
AbsentSettings == [exists |-> FALSE, doc |-> EmptyDict]

\* A save that updates the stored document instead of replacing it.
WriteSettingsMerging(file, doc) ==
    [exists |-> TRUE,
     doc |-> [k \in DOMAIN file.doc \cup DOMAIN doc |->
                 IF k \in DOMAIN doc THEN doc[k] ELSE file.doc[k]]]

\* Lines 118-120: open(SETTINGS_FILE, "w") and json.dump of the whole dict.
WriteSettings(file, doc) == [exists |-> TRUE, doc |-> doc]

\* Lines 110-114.
load_settings(file) ==
    IF ~file.exists
    THEN [selected_profiles |-> EmptyDict, field_defaults |-> EmptyDict]
    ELSE file.doc

---------------------------------------------------------------------------
(* app.py: InvoiceApp._normalize_loaded_profiles                           *)

\* A reclassification that ignores the IBAN.
NormalizeMethodAlwaysDomestic(p) ==
    IF Get(p, "method_type", "<None>") = "bank_transfer"
    THEN [p EXCEPT !.method_type = "bank_domestic"]
    ELSE p

\* Lines 253-255, for one payment method p.
NormalizeMethod(p) ==
    IF Get(p, "method_type", "<None>") = "bank_transfer"
    THEN [p EXCEPT !.method_type =
             IF Get(Get(p, "details", EmptyDict), "iban", "") # ""
             THEN "bank_international" ELSE "bank_domestic"]
    ELSE p

\* Lines 251-256.  load_profiles always returns a payment_method group.
NormalizeLoadedProfiles(grouped) ==
    [t \in DOMAIN grouped |->
        IF t = "payment_method"
        THEN [i \in DOMAIN grouped[t] |-> NormalizeMethod(grouped[t][i])]
        ELSE grouped[t]]

---------------------------------------------------------------------------
(* app.py: the selection variables and _load_defaults                      *)

\* Keys of PAYMENT_TYPE_LABELS (lines 36-40).
PaymentTypes == {"bank_domestic", "bank_international", "paypal"}

\* Lines 207-210.
InitialUi ==
    [provider |-> "", recipient |-> "", payment_type |-> "bank_domestic",
     payment |-> ""]

\* x.get("display_name") or x.get("label") or "".
ComboKey(item) ==
    IF Get(item, "display_name", "") # "" THEN item.display_name
    ELSE Get(item, "label", "")

\* Lines 525-531: the text the target variable is set to.
select_combo_by_id(profs, profile_type, profile_id) ==
    LET items == Get(profs, profile_type, <<>>)
        hits == {i \in DOMAIN items : Get(items[i], "id", "<None>") = profile_id}
    IN  IF items = <<>> THEN ""
        ELSE IF hits = {} THEN ComboKey(items[1])
        ELSE ComboKey(items[CHOOSE i \in hits : \A j \in hits : i <= j])

\* Lines 534-536: the values of the payment combo box.
payment_combo_values(profs, method) ==
    LET payments == SelectSeq(Get(profs, "payment_method", <<>>),
                              LAMBDA p : Get(p, "method_type", "<None>") = method)
    IN  [i \in DOMAIN payments |-> Get(payments[i], "label", payments[i].id)]

InSeq(x, values) == \E i \in DOMAIN values : values[i] = x

\* Lines 533-538.
reload_payment_combo(profs, u) ==
    LET values == payment_combo_values(profs, u.payment_type)
    IN  IF InSeq(u.payment, values) THEN u
        ELSE [u EXCEPT !.payment = IF values # <<>> THEN values[1] ELSE ""]

\* Lines 509-523, doc being InvoiceApp.settings.
load_defaults(profs, doc, u) ==
    LET selected == Get(doc, "selected_profiles", EmptyDict)
        kind == Get(selected, "payment_type", "<None>")
        method == IF kind \in PaymentTypes THEN kind ELSE "bank_domestic"
        values == payment_combo_values(profs, method)
        byId == select_combo_by_id(profs, "payment_method",
                                   Get(selected, "payment_method_id", "<None>"))
    IN  [provider |-> select_combo_by_id(profs, "provider",
                          Get(selected, "provider_id", "<None>")),
         recipient |-> select_combo_by_id(profs, "recipient",
                          Get(selected, "recipient_id", "<None>")),
         payment_type |-> method,
         payment |-> IF byId = "" /\ values # <<>> THEN values[1] ELSE byId]

---------------------------------------------------------------------------
(* Inputs                                                                  *)

\* Profile dicts passed to save_profile / upsert_profile: two ids, an id
\* re-used under another type, a type outside the base ones, and dicts
\* that lack one of the keys id and type.
ProfileInputs ==
    { [id |-> "a", type |-> "provider", display_name |-> "Bob"],
      [id |-> "a", type |-> "provider", display_name |-> "Ann"],
      [id |-> "a", type |-> "recipient", display_name |-> "Zed"],
      [id |-> "b", type |-> "provider", display_name |-> "Ann"],
      [id |-> "b", type |-> "payment_method", label |-> "Bank"],
      [id |-> "b", type |-> "archive", display_name |-> ""],
      [id |-> "a", display_name |-> "Zed"],
      [id |-> "a", _deleted |-> TRUE],
      [type |-> "provider", display_name |-> "Bob"] }

ProfileIds == {"a", "b"}

DeleteTypes == {"provider", "recipient"}

\* Contents of the shipped seed log.
SeedFiles ==
    { AbsentFile,
      File(<<[id |-> "a", type |-> "provider", display_name |-> "Zed"]>>),
      File(<<[id |-> "b", type |-> "recipient", display_name |-> "Bob"],
             BlankLine,
             [id |-> "a", type |-> "provider", display_name |-> "Bob"]>>),
      File(<<[id |-> "b", type |-> "provider", _deleted |-> TRUE]>>) }

OutputPaths == {"p1", "p2"}

\* Arguments of remove_history_entry.
RemoveArgs == OutputPaths \cup {""}

\* History entries: two entries for the same file, one for another file,
\* and entries whose output_path is empty or missing.
HistoryInputs ==
    { [invoice_number |-> "INV-1", output_path |-> "p1"],
      [invoice_number |-> "INV-2", output_path |-> "p1"],
      [invoice_number |-> "INV-3", output_path |-> "p2"],
      [invoice_number |-> "INV-4", output_path |-> ""],
      [invoice_number |-> "INV-5"] }

---------------------------------------------------------------------------
(* State machine                                                           *)

\* First run: the seed log is whatever the application shipped with, no
\* local file has been written yet and no invoice has been produced.  The
\* application has loaded its profiles (app.py:205).
Init ==
    /\ seed \in SeedFiles
    /\ local = AbsentFile
    /\ history = AbsentFile
    /\ disk = {}
    /\ call = [op |-> "init", prior |-> "none"]
    /\ settings = AbsentSettings
    /\ profiles = NormalizeLoadedProfiles(load_profiles(seed, local))
    /\ now = 1
    /\ ui = load_defaults(profiles, load_settings(settings), InitialUi)

\* Lines 60-61.
save_profile(record) ==
    /\ Len(local.lines) < MaxLocal
    /\ local' = AppendJsonl(local, record)
    /\ call' = [op |-> "save_profile", prior |-> call.op, record |-> record]
    /\ UNCHANGED <<settings, profiles, now, seed, history, disk, ui>>

\* Lines 64-65.
upsert_profile(record) ==
    /\ Len(local.lines) < MaxLocal
    /\ local' = AppendJsonl(local, record)
    /\ call' = [op |-> "upsert_profile", prior |-> call.op, record |-> record]
    /\ UNCHANGED <<settings, profiles, now, seed, history, disk, ui>>

\* A delete that appends the id and type without the marker.
delete_profile_unmarked(profile_id, profile_type) ==
    /\ Len(local.lines) < MaxLocal
    /\ local' = AppendJsonl(local, [id |-> profile_id, type |-> profile_type])
    /\ call' = [op |-> "delete_profile", prior |-> call.op,
                id |-> profile_id, type |-> profile_type]
    /\ UNCHANGED <<settings, profiles, now, seed, history, disk, ui>>

\* Lines 68-69.
delete_profile(profile_id, profile_type) ==
    /\ Len(local.lines) < MaxLocal
    /\ local' = AppendJsonl(local, [id |-> profile_id, type |-> profile_type,
                                    _deleted |-> TRUE])
    /\ call' = [op |-> "delete_profile", prior |-> call.op,
                id |-> profile_id, type |-> profile_type]
    /\ UNCHANGED <<settings, profiles, now, seed, history, disk, ui>>

\* A load that opens the local log for writing and so creates it.
LoadProfilesCreatingLocal ==
    /\ call' = [op |-> "load_profiles", prior |-> call.op,
                ret |-> load_profiles(seed, local)]
    /\ local' = File(local.lines)
    /\ UNCHANGED <<settings, profiles, now, seed, history, disk, ui>>

\* Lines 41-57, called by a client of the store.
LoadProfiles ==
    /\ call' = [op |-> "load_profiles", prior |-> call.op,
                ret |-> load_profiles(seed, local)]
    /\ UNCHANGED <<settings, profiles, now, seed, local, history, disk, ui>>

\* Lines 72-73.
record_invoice_history(record) ==
    /\ Len(history.lines) < MaxHistory
    /\ history' = AppendJsonl(history, record)
    /\ call' = [op |-> "record_invoice_history", prior |-> call.op,
                record |-> record]
    /\ UNCHANGED <<settings, profiles, now, seed, local, disk, ui>>

\* A load that opens the history log for appending and so creates it.
LoadHistoryCreatingFile(limit) ==
    /\ call' = [op |-> "load_history", prior |-> call.op, limit |-> limit,
                ret |-> load_history(history, limit)]
    /\ history' = File(history.lines)
    /\ UNCHANGED <<settings, profiles, now, seed, local, disk, ui>>

\* Lines 76-78, called by a client of the store.
LoadHistory(limit) ==
    /\ call' = [op |-> "load_history", prior |-> call.op, limit |-> limit,
                ret |-> load_history(history, limit)]
    /\ UNCHANGED <<settings, profiles, now, seed, local, history, disk, ui>>

\* A prune that rewrites the log whether or not an entry was dropped.
prune_always_rewrites ==
    LET items == ReadJsonl(history)
        kept == SelectSeq(items, LAMBDA item : PruneKeeps(item, disk))
        removed == Len(items) - Len(kept)
    IN  /\ history' = WriteJsonl(history, kept)
        /\ call' = [op |-> "prune_missing_history_files", prior |-> call.op,
                    items |-> items, ret |-> removed, wrote |-> TRUE]
        /\ UNCHANGED <<settings, profiles, now, seed, local, disk, ui>>

\* Lines 89-101.  wrote records whether _write_jsonl was called.
prune_missing_history_files ==
    LET items == ReadJsonl(history)
        kept == SelectSeq(items, LAMBDA item : PruneKeeps(item, disk))
        removed == Len(items) - Len(kept)
    IN  /\ history' = IF removed # 0 THEN WriteJsonl(history, kept)
                      ELSE history
        /\ call' = [op |-> "prune_missing_history_files", prior |-> call.op,
                    items |-> items, ret |-> removed, wrote |-> (removed # 0)]
        /\ UNCHANGED <<settings, profiles, now, seed, local, disk, ui>>

\* Lines 104-107.
remove_history_entry(output_path) ==
    /\ history' = WriteJsonl(history,
                             RemoveKept(ReadJsonl(history), output_path))
    /\ call' = [op |-> "remove_history_entry", prior |-> call.op,
                output_path |-> output_path, items |-> ReadJsonl(history),
                wrote |-> TRUE]
    /\ UNCHANGED <<settings, profiles, now, seed, local, disk, ui>>

\* The file system outside the store: an invoice file is written
\* (build_invoice_pdf) or removed (Path.unlink, or the user deleting it).
CreateOutputFile(p) ==
    /\ p \notin disk
    /\ disk' = disk \cup {p}
    /\ call' = [op |-> "fs_create", prior |-> call.op, path |-> p]
    /\ UNCHANGED <<settings, profiles, now, seed, local, history, ui>>

DeleteOutputFile(p) ==
    /\ p \in disk
    /\ disk' = disk \ {p}
    /\ call' = [op |-> "fs_delete", prior |-> call.op, path |-> p]
    /\ UNCHANGED <<settings, profiles, now, seed, local, history, ui>>

NextProfiles ==
    \/ \E record \in ProfileInputs : save_profile(record)
    \/ \E record \in ProfileInputs : upsert_profile(record)
    \/ \E id \in ProfileIds, type \in DeleteTypes : delete_profile(id, type)
    \/ LoadProfiles

NextHistory ==
    \/ \E record \in HistoryInputs : record_invoice_history(record)
    \/ \E limit \in 0..MaxLimit : LoadHistory(limit)
    \/ prune_missing_history_files
    \/ \E p \in RemoveArgs : remove_history_entry(p)
    \/ \E p \in OutputPaths : CreateOutputFile(p)
    \/ \E p \in OutputPaths : DeleteOutputFile(p)

Next == NextProfiles \/ NextHistory

SpecProfiles == Init /\ [][NextProfiles]_vars

\* The history functions never read the profile logs, so the history log
\* is explored from the initial state without a seed log.
InitHistory == Init /\ seed = AbsentFile

SpecHistory == InitHistory /\ [][NextHistory]_vars

Spec == Init /\ [][Next]_vars

\* The history functions together with load_profiles, on a data directory
\* that starts without any file.
NextFirstRun == NextHistory \/ LoadProfiles

SpecFirstRun == InitHistory /\ [][NextFirstRun]_vars

---------------------------------------------------------------------------
(* Settings document                                                       *)

SelectedInputs ==
    { EmptyDict,
      [provider_id |-> "a"],
      [provider_id |-> "b", recipient_id |-> "a"],
      [payment_method_id |-> "b", payment_type |-> "paypal"],
      [provider_id |-> "a", recipient_id |-> "b",
       payment_method_id |-> "b", payment_type |-> "bank_domestic"] }

DefaultsInputs ==
    { EmptyDict,
      [currency |-> "GBP"],
      [currency |-> "EUR", terms_label |-> "Net 14"],
      [terms_label |-> "Net 7", due_days |-> "7"],
      [service_category |-> "Consulting"] }

\* Documents passed to save_settings: the shaped ones and two that lack
\* a top-level key.
SettingsInputs ==
    {[selected_profiles |-> sel, field_defaults |-> def] :
        sel \in SelectedInputs, def \in DefaultsInputs}
    \cup {EmptyDict, [field_defaults |-> [currency |-> "GBP"]]}

\* Lines 117-120.
save_settings(doc) ==
    /\ settings' = WriteSettings(settings, doc)
    /\ call' = [op |-> "save_settings", prior |-> call.op, settings |-> doc]
    /\ UNCHANGED <<seed, local, history, disk, profiles, now, ui>>

\* Lines 110-114, called by a client of the store.
LoadSettings ==
    /\ call' = [op |-> "load_settings", prior |-> call.op,
                ret |-> load_settings(settings)]
    /\ UNCHANGED <<seed, local, history, disk, settings, profiles, now, ui>>

NextSettings ==
    \/ \E doc \in SettingsInputs : save_settings(doc)
    \/ LoadSettings

SpecSettings == InitHistory /\ [][NextSettings]_vars

---------------------------------------------------------------------------
(* Ordering of the groups                                                  *)

\* Profiles of one type whose sort keys come from display_name, from label
\* and from id, with keys that tie.
SortInputs ==
    { [id |-> "a", type |-> "provider", display_name |-> "Bob"],
      [id |-> "b", type |-> "provider", display_name |-> "Ann"],
      [id |-> "b", type |-> "provider", display_name |-> "Bob"],
      [id |-> "a", type |-> "provider", display_name |-> "", label |-> "Zed"],
      [id |-> "b", type |-> "provider", label |-> "Ann"],
      [id |-> "a", type |-> "provider"],
      [id |-> "b", type |-> "provider", display_name |-> "", label |-> ""],
      [id |-> "c", type |-> "provider", display_name |-> "Ann"],
      [id |-> "c", type |-> "provider", label |-> "Bank"] }

NextSort ==
    \/ \E record \in SortInputs : save_profile(record)
    \/ LoadProfiles

SpecSort == Init /\ [][NextSort]_vars

---------------------------------------------------------------------------
(* app.py: the application's reload of the profiles                        *)

\* Payment methods as the logs can hold them: legacy bank_transfer with a
\* non-empty iban, an empty iban, details without iban and no details;
\* current method types; a method without method_type; and a provider that
\* happens to carry method_type bank_transfer.
PaymentInputs ==
    { [id |-> "a", type |-> "payment_method", method_type |-> "bank_transfer",
       details |-> [iban |-> "GB1"]],
      [id |-> "a", type |-> "payment_method", method_type |-> "bank_transfer",
       details |-> [iban |-> ""]],
      [id |-> "b", type |-> "payment_method", method_type |-> "bank_transfer",
       details |-> [sort_code |-> "1"]],
      [id |-> "b", type |-> "payment_method", method_type |-> "bank_transfer"],
      [id |-> "a", type |-> "payment_method", method_type |-> "bank_domestic",
       details |-> [iban |-> "GB1"]],
      [id |-> "b", type |-> "payment_method", method_type |-> "paypal",
       details |-> [paypal_email |-> "x"]],
      [id |-> "a", type |-> "payment_method"],
      [id |-> "b", type |-> "provider", method_type |-> "bank_transfer"] }

\* self.profiles = self._normalize_loaded_profiles(load_profiles()), as
\* run at start-up and after every profile dialog.
ReloadProfiles ==
    LET loaded == load_profiles(seed, local)
    IN  /\ profiles' = NormalizeLoadedProfiles(loaded)
        /\ call' = [op |-> "reload_profiles", prior |-> call.op,
                    loaded |-> loaded]
        /\ UNCHANGED <<seed, local, history, disk, settings, now, ui>>

NextReload ==
    \/ \E record \in PaymentInputs : save_profile(record)
    \/ ReloadProfiles

SpecReload == InitHistory /\ [][NextReload]_vars

---------------------------------------------------------------------------
(* pdf_generator.py: payment_rows                                          *)

\* str.title() on the method types in use.
Title(methodType) ==
    CASE methodType = "bank_transfer" -> "Bank_Transfer"
      [] methodType = "bank_domestic" -> "Bank_Domestic"
      [] methodType = "bank_international" -> "Bank_International"
      [] methodType = "paypal" -> "Paypal"
      [] OTHER -> methodType

\* Lines 57-77.  A row is <<label, value>>.
payment_rows(payment_method, reference, currency) ==
    LET method_type == Get(payment_method, "method_type", "bank_transfer")
        details == Get(payment_method, "details", EmptyDict)
        rows == << <<"Payment method",
                     Get(payment_method, "label", Title(method_type))>>,
                   <<"Payment currency", Get(details, "currency", currency)>> >>
    IN  IF method_type = "paypal"
        THEN rows \o
             << <<"PayPal email", Get(details, "paypal_email", "")>>,
                <<"PayPal link", Get(details, "paypal_link", "")>>,
                <<"Reference", reference>> >>
        ELSE rows \o
             << <<"Account holder", Get(details, "account_holder", "")>>,
                <<"Bank", Get(details, "bank_name", "")>>,
                <<"Sort code", Get(details, "sort_code", "")>>,
                <<"Account number", Get(details, "account_number", "")>>,
                <<"IBAN", Get(details, "iban", "")>>,
                <<"BIC/SWIFT", Get(details, "bic", "")>>,
                <<"Reference", reference>> >>

DomesticDetails ==
    [account_holder |-> "Ann", bank_name |-> "Bank", sort_code |-> "1",
     account_number |-> "2"]

InternationalDetails ==
    [account_holder |-> "Ann", bank_name |-> "Bank", sort_code |-> "1",
     account_number |-> "2", iban |-> "GB1", bic |-> "BIC1"]

\* Payment methods of every method type, as the profile dialogs save them
\* and as older logs hold them.
PaymentMethodInputs ==
    { [id |-> "a", type |-> "payment_method", label |-> "Bank",
       method_type |-> "bank_domestic", details |-> DomesticDetails],
      [id |-> "a", type |-> "payment_method", label |-> "Bank",
       method_type |-> "bank_domestic",
       details |-> [account_holder |-> "Ann", bank_name |-> "Bank",
                    sort_code |-> "1", account_number |-> "2",
                    iban |-> "", bic |-> ""]],
      [id |-> "a", type |-> "payment_method", label |-> "Bank",
       method_type |-> "bank_international",
       details |-> InternationalDetails],
      [id |-> "a", type |-> "payment_method",
       method_type |-> "bank_international",
       details |-> InternationalDetails],
      [id |-> "a", type |-> "payment_method", label |-> "Bank",
       method_type |-> "bank_transfer", details |-> InternationalDetails],
      [id |-> "a", type |-> "payment_method", label |-> "Bank",
       method_type |-> "bank_transfer", details |-> DomesticDetails],
      [id |-> "a", type |-> "payment_method", label |-> "Bank",
       method_type |-> "bank_transfer",
       details |-> [account_holder |-> "Ann", iban |-> ""]],
      [id |-> "b", type |-> "payment_method", label |-> "Pay",
       method_type |-> "paypal",
       details |-> [paypal_email |-> "x", paypal_link |-> "y"]],
      [id |-> "b", type |-> "payment_method", method_type |-> "paypal",
       details |-> [paypal_email |-> "x", currency |-> "USD"]],
      [id |-> "b", type |-> "payment_method", method_type |-> "paypal"],
      [id |-> "b", type |-> "payment_method", label |-> "Bank",
       details |-> InternationalDetails],
      [id |-> "b", type |-> "payment_method", label |-> "Bank"] }

ReferenceInputs == {"Tut-AB-210226", "REF1", ""}

CurrencyInputs == {"GBP", "EUR", "USD"}

PaymentRows(payment_method, reference, currency) ==
    /\ call' = [op |-> "payment_rows", prior |-> call.op,
                payment_method |-> payment_method,
                reference |-> reference, currency |-> currency,
                ret |-> payment_rows(payment_method, reference, currency)]
    /\ UNCHANGED <<seed, local, history, disk, settings, profiles, now, ui>>

NextPayment ==
    \E payment_method \in PaymentMethodInputs, reference \in ReferenceInputs,
       currency \in CurrencyInputs :
        PaymentRows(payment_method, reference, currency)

SpecPayment == InitHistory /\ [][NextPayment]_vars

---------------------------------------------------------------------------
(* pdf_generator.py: numbers and dates as text                             *)

\* A decimal number with at most two decimals (hours, a rate) is held as
\* the integer count of its hundredths; the product of two of them is a
\* count of ten-thousandths.

Digit(n) == <<"0", "1", "2", "3", "4", "5", "6", "7", "8", "9">>[n + 1]

RECURSIVE ToStr(_)
ToStr(n) == IF n < 10 THEN Digit(n) ELSE ToStr(n \div 10) \o Digit(n % 10)

Pad2(n) == IF n < 10 THEN "0" \o ToStr(n) ELSE ToStr(n)

Pad3(n) == IF n < 100 THEN "0" \o Pad2(n) ELSE ToStr(n)

\* The "," option of the format specification.
RECURSIVE Thousands(_)
Thousands(n) ==
    IF n < 1000 THEN ToStr(n)
    ELSE Thousands(n \div 1000) \o "," \o Pad3(n % 1000)

\* Rounding of x / unit to the nearest integer, ties to even.
RoundHalfEven(x, unit) ==
    LET q == x \div unit
        r == x % unit
    IN  IF 2 * r < unit THEN q
        ELSE IF 2 * r > unit THEN q + 1
        ELSE IF q % 2 = 0 THEN q ELSE q + 1

\* Line 31: f"{x:,.2f}", x in ten-thousandths.
money(x) ==
    LET cents == RoundHalfEven(x, 100)
    IN  Thousands(cents \div 100) \o "." \o Pad2(cents % 100)

\* f"{x:.2f}", x in hundredths.
Fixed2(x) == ToStr(x \div 100) \o "." \o Pad2(x % 100)

\* A Gregorian rule without the century exception.
IsLeapEveryFourth(year) == year % 4 = 0

IsLeap(year) == year % 4 = 0 /\ (year % 100 # 0 \/ year % 400 = 0)

DaysInMonth(year, month) ==
    IF month = 2 THEN (IF IsLeap(year) THEN 29 ELSE 28)
    ELSE IF month \in {4, 6, 9, 11} THEN 30 ELSE 31

DaysBeforeYear(year) ==
    LET y == year - 1
    IN  y * 365 + y \div 4 - y \div 100 + y \div 400

RECURSIVE DaysBeforeMonth(_, _)
DaysBeforeMonth(year, month) ==
    IF month = 1 THEN 0
    ELSE DaysBeforeMonth(year, month - 1) + DaysInMonth(year, month - 1)

\* date.toordinal(): 1 for 0001-01-01.
ToOrdinal(date) ==
    DaysBeforeYear(date.year) + DaysBeforeMonth(date.year, date.month)
        + date.day

DaysInYear(year) == IF IsLeap(year) THEN 366 ELSE 365

\* date.fromordinal().
FromOrdinal(n) ==
    LET year == CHOOSE y \in (n \div 366)..(n \div 365 + 1) :
                    /\ DaysBeforeYear(y) < n
                    /\ n <= DaysBeforeYear(y) + DaysInYear(y)
        rest == n - DaysBeforeYear(year)
        month == CHOOSE m \in 1..12 :
                    /\ DaysBeforeMonth(year, m) < rest
                    /\ rest <= DaysBeforeMonth(year, m) + DaysInMonth(year, m)
    IN  [year |-> year, month |-> month,
         day |-> rest - DaysBeforeMonth(year, month)]

\* date + timedelta(days=days).
DatePlusDays(date, days) == FromOrdinal(ToOrdinal(date) + days)

\* Line 23: "%d-%m-%Y".
fmt_date(d) == Pad2(d.day) \o "-" \o Pad2(d.month) \o "-" \o ToStr(d.year)

\* Line 27: "%H:%M".
fmt_time(t) == Pad2(t.hour) \o ":" \o Pad2(t.minute)

---------------------------------------------------------------------------
(* pdf_generator.py: initials and build_invoice_pdf                        *)

\* A name is held as the sequence of its characters.

Whitespace == {" ", "\t", "\n"}

LowerCase ==
    <<"a", "b", "c", "d", "e", "f", "g", "h", "i", "j", "k", "l", "m",
      "n", "o", "p", "q", "r", "s", "t", "u", "v", "w", "x", "y", "z">>

UpperCase ==
    <<"A", "B", "C", "D", "E", "F", "G", "H", "I", "J", "K", "L", "M",
      "N", "O", "P", "Q", "R", "S", "T", "U", "V", "W", "X", "Y", "Z">>

\* str.upper() of one character.
Upper(c) ==
    IF \E i \in DOMAIN LowerCase : LowerCase[i] = c
    THEN UpperCase[CHOOSE i \in DOMAIN LowerCase : LowerCase[i] = c]
    ELSE c

\* str.split(): the maximal runs of characters that are not whitespace.
RECURSIVE Split(_, _)
Split(chars, word) ==
    LET done == IF word = <<>> THEN <<>> ELSE <<word>>
    IN  IF chars = <<>> THEN done
        ELSE IF Head(chars) \in Whitespace
             THEN done \o Split(Tail(chars), <<>>)
             ELSE Split(Tail(chars), Append(word, Head(chars)))

\* Lines 15-19.
initials(name) ==
    LET parts == Split(name, <<>>)
    IN  IF parts = <<>> THEN "XX"
        ELSE IF Len(parts) = 1 THEN Upper(parts[1][1])
        ELSE Upper(parts[1][1]) \o Upper(parts[2][1])

\* A billed amount that charges the preparation as well.
BilledWithPrep(invoice) ==
    invoice.session_duration_hours * Get(invoice, "rate_per_hour", 0)
        + Get(invoice, "prep_hours", 0) * Get(invoice, "prep_rate", 0)

\* Line 130, in ten-thousandths.
Billed(invoice) ==
    invoice.session_duration_hours * Get(invoice, "rate_per_hour", 0)

\* Lines 85-87.
DueDate(invoice) ==
    DatePlusDays(invoice.invoice_date, Get(invoice, "due_days", 7))

\* Lines 92-95.  An absent student_name is the empty name.
Reference(invoice) ==
    LET student_name == Get(invoice, "student_name", <<>>)
        label == IF Split(student_name, <<>>) # <<>>
                 THEN student_name
                 ELSE Get(invoice.recipient, "display_name",
                          <<"C", "l", "i", "e", "n", "t">>)
        start == invoice.session_start
    IN  IF Get(invoice, "reference", "") # ""
        THEN invoice.reference
        ELSE "Tut-" \o initials(label) \o "-" \o Pad2(start.day)
                 \o Pad2(start.month) \o Pad2(start.year % 100)

\* Lines 80-160: what the document shows of the due date, the line items,
\* the totals and the payment block.
build_invoice_pdf(invoice) ==
    LET reference == Reference(invoice)
        currency == Get(invoice, "currency", "GBP")
        billed == Billed(invoice)
    IN  [invoice_date |-> fmt_date(invoice.invoice_date),
         due_date |-> fmt_date(DueDate(invoice)),
         session_hours |-> Fixed2(invoice.session_duration_hours),
         rate |-> money(Get(invoice, "rate_per_hour", 0) * 100),
         billed_amount |-> money(billed),
         prep_hours |-> Fixed2(Get(invoice, "prep_hours", 0)),
         prep_rate |-> money(Get(invoice, "prep_rate", 0) * 100),
         prep_amount |-> money(0),
         subtotal |-> money(billed),
         total |-> money(billed),
         pay_rows |-> payment_rows(invoice.payment_method, reference,
                                   currency)]

MaxDueDays == 40    \* largest due_days of an invoice

BaseInvoice ==
    [session_start |-> [year |-> 2026, month |-> 2, day |-> 21,
                        hour |-> 10, minute |-> 0],
     session_duration_hours |-> 150,
     invoice_date |-> [year |-> 2026, month |-> 2, day |-> 21],
     due_days |-> 7,
     invoice_number |-> "INV-20260221-0000",
     provider |-> [id |-> "a", type |-> "provider",
                   display_name |-> <<"A", "n", "n">>],
     recipient |-> [id |-> "b", type |-> "recipient",
                    display_name |-> <<"B", "o", "b", " ", "L", "t", "d">>],
     student_name |-> <<"A", "l", "i", "c", "e", " ", "S", "m", "i", "t", "h">>,
     rate_per_hour |-> 7500,
     prep_hours |-> 0,
     payment_method |-> [id |-> "a", type |-> "payment_method",
                         label |-> "Bank", method_type |-> "bank_international",
                         details |-> InternationalDetails],
     currency |-> "GBP"]

Without(f, key) == [k \in DOMAIN f \ {key} |-> f[k]]

HoursInputs == {0, 25, 50, 100, 150, 1000}

RateInputs == {0, 4, 2000, 7500, 9999, 100000}

PrepHoursInputs == {0, 50, 200}

PrepRateInputs == {0, 2000, 9999}

\* Invoices that differ in the amounts.  A product that falls exactly
\* between two cents is left out: which way it is rounded depends on the
\* binary value of the product.
AmountInvoices ==
    LET sessions ==
            { [BaseInvoice EXCEPT !.session_duration_hours = h,
                                  !.rate_per_hour = r, !.prep_hours = p] :
                h \in HoursInputs, r \in RateInputs, p \in PrepHoursInputs }
        all == sessions
               \cup { [prep_rate |-> q] @@ i : i \in sessions,
                                               q \in PrepRateInputs }
               \cup { Without(Without(i, "rate_per_hour"), "prep_hours") :
                        i \in sessions }
    IN  { i \in all : Billed(i) % 100 # 50 }

DateInputs ==
    { [year |-> 2026, month |-> 2, day |-> 21],
      [year |-> 2026, month |-> 2, day |-> 28],
      [year |-> 2024, month |-> 2, day |-> 21],
      [year |-> 2024, month |-> 2, day |-> 29],
      [year |-> 2100, month |-> 2, day |-> 28],
      [year |-> 2000, month |-> 2, day |-> 28],
      [year |-> 2026, month |-> 12, day |-> 31],
      [year |-> 2026, month |-> 12, day |-> 1],
      [year |-> 2026, month |-> 1, day |-> 31],
      [year |-> 2027, month |-> 11, day |-> 30] }

\* Invoices that differ in the invoice date and in due_days.
DateInvoices ==
    { [BaseInvoice EXCEPT !.invoice_date = d, !.due_days = n] :
        d \in DateInputs, n \in 0..MaxDueDays }
    \cup { Without([BaseInvoice EXCEPT !.invoice_date = d], "due_days") :
            d \in DateInputs }

NameInputs ==
    { <<"A", "l", "i", "c", "e", " ", "S", "m", "i", "t", "h">>,
      <<"A", "l", "i", "c", "e">>,
      <<"a", "l", "i", "c", "e", " ", "s", "m", "i", "t", "h">>,
      <<"b", "o", "b", " ", "m", " ", "k", "i", "n", "g">>,
      <<" ", " ", "a", "n", "n", "\t", "l", "e", "e", " ">>,
      <<"a">>,
      <<" ">>,
      <<>>,
      <<"7", " ", "u", "p">> }

\* Invoices that differ in what the reference is derived from.  The
\* recipient always has a display_name: line 116 reads it unconditionally.
ReferenceInvoices ==
    LET named ==
            { [BaseInvoice EXCEPT !.student_name = n, !.session_start.day = d] :
                n \in NameInputs, d \in {5, 21} }
        all == named
               \cup { [i EXCEPT !.recipient.display_name = n] :
                        i \in named, n \in {<<>>, <<"B", "o", "b">>} }
               \cup { Without(i, "student_name") : i \in named }
    IN  all \cup { [reference |-> r] @@ i : i \in all, r \in ReferenceInputs }

\* build_invoice_pdf(invoice, output_path): doc.build writes the file.
BuildInvoicePdf(invoice, output_path) ==
    /\ disk' = disk \cup {output_path}
    /\ call' = [op |-> "build_invoice_pdf", prior |-> call.op,
                invoice |-> invoice, output_path |-> output_path,
                ret |-> build_invoice_pdf(invoice)]
    /\ UNCHANGED <<seed, local, history, settings, profiles, now, ui>>

NextAmounts == \E invoice \in AmountInvoices : BuildInvoicePdf(invoice, "p1")

SpecAmounts == InitHistory /\ [][NextAmounts]_vars

NextDates == \E invoice \in DateInvoices : BuildInvoicePdf(invoice, "p1")

SpecDates == InitHistory /\ [][NextDates]_vars

NextReferences ==
    \E invoice \in ReferenceInvoices : BuildInvoicePdf(invoice, "p1")

SpecReferences == InitHistory /\ [][NextReferences]_vars

---------------------------------------------------------------------------
(* pdf_generator.py: safe_para                                             *)

\* A text is held as the sequence of its characters.

\* An escape that leaves the ampersand alone.
EscapeChar_NoAmp(c) ==
    CASE c = ">" -> <<"&", "g", "t", ";">>
      [] c = "<" -> <<"&", "l", "t", ";">>
      [] OTHER -> <<c>>

\* xml.sax.saxutils.escape on one character.
EscapeChar(c) ==
    CASE c = "&" -> <<"&", "a", "m", "p", ";">>
      [] c = ">" -> <<"&", "g", "t", ";">>
      [] c = "<" -> <<"&", "l", "t", ";">>
      [] OTHER -> <<c>>

\* Line 45: escape(str(text)).
RECURSIVE Escape(_)
Escape(text) ==
    IF text = <<>> THEN <<>>
    ELSE EscapeChar(Head(text)) \o Escape(Tail(text))

StartsWith(s, old) == Len(s) >= Len(old) /\ SubSeq(s, 1, Len(old)) = old

\* str.replace(old, new): the occurrences of old from left to right, not
\* overlapping.
RECURSIVE Replace(_, _, _)
Replace(s, old, new) ==
    IF s = <<>> THEN <<>>
    ELSE IF StartsWith(s, old)
         THEN new \o Replace(SubSeq(s, Len(old) + 1, Len(s)), old, new)
         ELSE <<Head(s)>> \o Replace(Tail(s), old, new)

\* Lines 46-51: the replacements in the order of the dict.
Restored ==
    << << <<"&", "l", "t", ";", "b", "&", "g", "t", ";">>, <<"<", "b", ">">> >>,
       << <<"&", "l", "t", ";", "/", "b", "&", "g", "t", ";">>, <<"<", "/", "b", ">">> >>,
       << <<"&", "l", "t", ";", "b", "r", "/", "&", "g", "t", ";">>, <<"<", "b", "r", "/", ">">> >>,
       << <<"&", "l", "t", ";", "b", "r", "&", "g", "t", ";">>, <<"<", "b", "r", "/", ">">> >> >>

RECURSIVE RestoreFrom(_, _)
RestoreFrom(s, k) ==
    IF k > Len(Restored) THEN s
    ELSE RestoreFrom(Replace(s, Restored[k][1], Restored[k][2]), k + 1)

\* Lines 44-54: the markup handed to Paragraph.
safe_para(text) ==
    Replace(RestoreFrom(Escape(text), 1), <<"\n">>, <<"<", "b", "r", "/", ">">>)

MaxText == 5        \* longest text made of the markup characters

MarkupChars == {"<", ">", "&", "/", "b", "r", "\n"}

TextInputs ==
    UNION { [1..n -> MarkupChars] : n \in 0..MaxText }
    \cup { <<"&", "l", "t", ";", "b", "&", "g", "t", ";">>,
           <<"&", "a", "m", "p", ";", "l", "t", ";">>,
           <<"<", "b", ">", "A", "n", "n", "<", "/", "b", ">">>,
           <<"a", "\n", "<", "b", "r", "/", ">", "&">>,
           <<"<", "s", "c", "r", "i", "p", "t", ">">>,
           <<"<", "b", ">", "<", "b", "r", ">", "\n", "<", "/", "b", ">">>,
           <<"&", "l", "t", ";", "b", "r", "/", "&", "g", "t", ";">> }

SafePara ==
    /\ call.op = "text"
    /\ call' = [op |-> "safe_para", text |-> call.text,
                ret |-> safe_para(call.text)]
    /\ UNCHANGED <<seed, local, history, disk, settings, profiles, now, ui>>

InitText ==
    /\ seed = AbsentFile /\ local = AbsentFile /\ history = AbsentFile
    /\ disk = {} /\ settings = AbsentSettings
    /\ profiles = NormalizeLoadedProfiles(load_profiles(seed, local))
    /\ now = 1
    /\ ui = load_defaults(profiles, load_settings(settings), InitialUi)
    /\ call \in { [op |-> "text", text |-> t] : t \in TextInputs }

SpecText == InitText /\ [][SafePara]_vars

---------------------------------------------------------------------------
(* pdf_generator.py: the header of the document                            *)

\* str.strip().
RECURSIVE Strip(_)
Strip(chars) ==
    IF chars = <<>> THEN <<>>
    ELSE IF Head(chars) \in Whitespace THEN Strip(Tail(chars))
    ELSE IF chars[Len(chars)] \in Whitespace
         THEN Strip(SubSeq(chars, 1, Len(chars) - 1))
    ELSE chars

\* Lines 34-41, for the list of lines the profile dialogs save; a missing
\* value is the empty string, which gives no line either.
RECURSIVE normalise_lines(_)
normalise_lines(value) ==
    IF value = <<>> THEN <<>>
    ELSE (IF Strip(Head(value)) = <<>> THEN <<>> ELSE <<Strip(Head(value))>>)
             \o normalise_lines(Tail(value))

\* "\n".join(lines).
RECURSIVE JoinLines(_)
JoinLines(lines) ==
    IF lines = <<>> THEN <<>>
    ELSE IF Len(lines) = 1 THEN lines[1]
    ELSE lines[1] \o <<"\n">> \o JoinLines(Tail(lines))

\* (party.get("email") or "").strip() as a list of zero or one line.
EmailLines(party) ==
    IF Strip(Get(party, "email", <<>>)) = <<>> THEN <<>>
    ELSE <<Strip(party.email)>>

\* Lines 111-113 and 119: the markup of the provider block.
from_markup(provider) ==
    safe_para(JoinLines(
        << <<"<", "b", ">">> \o provider.display_name \o <<"<", "/", "b", ">">> >>
        \o normalise_lines(Get(provider, "address_lines", <<>>))
        \o EmailLines(provider)))

\* Lines 115-117 and 119: the markup of the recipient block.
bill_markup(recipient) ==
    safe_para(JoinLines(
        << <<"<", "b", ">", "B", "i", "l", "l", " ", "T", "o", ":", "<", "/", "b", ">">>, recipient.display_name >>
        \o normalise_lines(Get(recipient, "address_lines", <<>>))
        \o EmailLines(recipient)))

\* The parties of an invoice, their display name as the user typed it.
PartyInputs ==
    { [id |-> "a", display_name |-> t] : t \in TextInputs }
    \cup { [id |-> "b", display_name |-> <<"A", "n", "n">>,
            address_lines |-> << <<" ", "1", " ", "<", "&">>, <<" ">> >>,
            email |-> <<"a", "@", "b", " ">>] }

ComposeHeader ==
    /\ call.op = "party"
    /\ call' = [op |-> "compose_header", party |-> call.party,
                from |-> from_markup(call.party),
                bill |-> bill_markup(call.party)]
    /\ UNCHANGED <<seed, local, history, disk, settings, profiles, now, ui>>

InitHeader ==
    /\ seed = AbsentFile /\ local = AbsentFile /\ history = AbsentFile
    /\ disk = {} /\ settings = AbsentSettings
    /\ profiles = NormalizeLoadedProfiles(load_profiles(seed, local))
    /\ now = 1
    /\ ui = load_defaults(profiles, load_settings(settings), InitialUi)
    /\ call \in { [op |-> "party", party |-> q] : q \in PartyInputs }

SpecHeader == InitHeader /\ [][ComposeHeader]_vars

---------------------------------------------------------------------------
(* app.py: InvoiceApp._generate_invoice                                    *)

\* The text of a sequence of characters.
RECURSIVE Concat(_)
Concat(chars) ==
    IF chars = <<>> THEN "" ELSE Head(chars) \o Concat(Tail(chars))

\* str.lower() of one character.
Lower(c) ==
    IF \E i \in DOMAIN UpperCase : UpperCase[i] = c
    THEN LowerCase[CHOOSE i \in DOMAIN UpperCase : UpperCase[i] = c]
    ELSE c

IsAlnum(c) ==
    \/ \E i \in DOMAIN UpperCase : c \in {UpperCase[i], LowerCase[i]}
    \/ \E n \in 0..9 : c = Digit(n)

\* str.strip("-").
RECURSIVE StripDashes(_)
StripDashes(chars) ==
    IF chars = <<>> THEN <<>>
    ELSE IF Head(chars) = "-" THEN StripDashes(Tail(chars))
    ELSE IF chars[Len(chars)] = "-"
         THEN StripDashes(SubSeq(chars, 1, Len(chars) - 1))
    ELSE chars

\* Lines 98-99.
slugify(value) ==
    LET mapped == [i \in DOMAIN value |->
                      IF IsAlnum(value[i]) THEN Lower(value[i]) ELSE "-"]
        stripped == StripDashes(mapped)
    IN  IF stripped = <<>> THEN "recipient" ELSE Concat(stripped)

\* The readings of the clock: the last four characters of
\* "%Y%m%d_%H%M%S" and the ISO text.  The first and the last reading are
\* an hour apart and agree in minute and second.
Instants ==
    << [mmss |-> "0000", iso |-> "2026-02-21T10:00:00"],
       [mmss |-> "0001", iso |-> "2026-02-21T10:00:01"],
       [mmss |-> "0000", iso |-> "2026-02-21T11:00:00"] >>

\* What the form holds when Generate is pressed, and how the handler
\* ends: a profile is not found (lines 751-753), a field does not parse
\* (755-757, 772-774), build_invoice_pdf raises (783), or all succeeds.
Outcomes == {"lookup_fails", "parse_fails", "compose_fails", "ok"}

FormInputs ==
    { [outcome |-> o, recipient |-> r,
       invoice_date |-> [year |-> 2026, month |-> 2, day |-> 21],
       service_category |-> "General",
       payment |-> [id |-> "a", type |-> "payment_method",
                    method_type |-> "bank_domestic"]] :
        o \in Outcomes,
        r \in { [id |-> "a", type |-> "recipient",
                 display_name |-> <<"B", "o", "b", " ", "L", "t", "d">>],
                [id |-> "b", type |-> "recipient",
                 display_name |-> <<"A", "n", "n">>] } }

\* A handler whose refresh looks for the files before the new one is
\* written.
GenerateInvoiceRefreshingFirst(form) ==
    LET at == Instants[now]
        recipient == form.recipient
        payment == form.payment
        invoice_number ==
            "INV-" \o ToStr(form.invoice_date.year)
                \o Pad2(form.invoice_date.month)
                \o Pad2(form.invoice_date.day) \o "-" \o at.mmss
        out_path ==
            "invoices/" \o slugify(recipient.display_name) \o "/"
                \o ToStr(form.invoice_date.year) \o "/" \o invoice_number
                \o ".pdf"
        entry ==
            [invoice_number |-> invoice_number,
             recipient |-> Concat(recipient.display_name),
             recipient_id |-> recipient.id,
             service_category |-> form.service_category,
             output_path |-> out_path,
             created_at |-> at.iso,
             payment_method |-> Get(payment, "method_type", "bank_domestic")]
        written == disk \cup {out_path}
        appended == AppendJsonl(history, entry)
        items == ReadJsonl(appended)
        kept == SelectSeq(items, LAMBDA item : PruneKeeps(item, disk))
        pruned == IF Len(kept) # Len(items)
                  THEN WriteJsonl(appended, kept) ELSE appended
    IN  IF form.outcome # "ok"
        THEN /\ call' = [op |-> "generate_invoice", prior |-> call.op,
                         ok |-> FALSE, outcome |-> form.outcome]
             /\ disk' \in IF form.outcome = "compose_fails"
                          THEN {disk, written} ELSE {disk}
             /\ history' = history
             /\ UNCHANGED <<seed, local, settings, profiles, now, ui>>
        ELSE /\ Len(history.lines) < MaxHistory
             /\ disk' = written
             /\ history' = pruned
             /\ call' = [op |-> "generate_invoice", prior |-> call.op,
                         ok |-> TRUE, out_path |-> out_path, entry |-> entry,
                         loaded |-> load_history(pruned, 200)]
             /\ UNCHANGED <<seed, local, settings, profiles, now, ui>>

\* A handler that records the entry before it composes the document.
GenerateInvoiceRecordingFirst(form) ==
    LET at == Instants[now]
        recipient == form.recipient
        payment == form.payment
        invoice_number ==
            "INV-" \o ToStr(form.invoice_date.year)
                \o Pad2(form.invoice_date.month)
                \o Pad2(form.invoice_date.day) \o "-" \o at.mmss
        out_path ==
            "invoices/" \o slugify(recipient.display_name) \o "/"
                \o ToStr(form.invoice_date.year) \o "/" \o invoice_number
                \o ".pdf"
        entry ==
            [invoice_number |-> invoice_number,
             recipient |-> Concat(recipient.display_name),
             recipient_id |-> recipient.id,
             service_category |-> form.service_category,
             output_path |-> out_path,
             created_at |-> at.iso,
             payment_method |-> Get(payment, "method_type", "bank_domestic")]
        written == disk \cup {out_path}
        appended == AppendJsonl(history, entry)
        items == ReadJsonl(appended)
        kept == SelectSeq(items, LAMBDA item : PruneKeeps(item, written))
        pruned == IF Len(kept) # Len(items)
                  THEN WriteJsonl(appended, kept) ELSE appended
    IN  IF form.outcome # "ok"
        THEN /\ call' = [op |-> "generate_invoice", prior |-> call.op,
                         ok |-> FALSE, outcome |-> form.outcome]
             /\ disk' \in IF form.outcome = "compose_fails"
                          THEN {disk, written} ELSE {disk}
             /\ history' = IF form.outcome = "compose_fails"
                           THEN appended ELSE history
             /\ UNCHANGED <<seed, local, settings, profiles, now, ui>>
        ELSE /\ Len(history.lines) < MaxHistory
             /\ disk' = written
             /\ history' = pruned
             /\ call' = [op |-> "generate_invoice", prior |-> call.op,
                         ok |-> TRUE, out_path |-> out_path, entry |-> entry,
                         loaded |-> load_history(pruned, 200)]
             /\ UNCHANGED <<seed, local, settings, profiles, now, ui>>

\* Lines 748-801.  An exception anywhere in the try block ends in the
\* error dialog (800-801); one raised by build_invoice_pdf may or may not
\* leave a file behind.  Otherwise build_invoice_pdf has written the file,
\* the entry is recorded and _refresh_history prunes and loads the history
\* (lines 808-810).
GenerateInvoice(form) ==
    LET at == Instants[now]
        recipient == form.recipient
        payment == form.payment
        invoice_number ==
            "INV-" \o ToStr(form.invoice_date.year)
                \o Pad2(form.invoice_date.month)
                \o Pad2(form.invoice_date.day) \o "-" \o at.mmss
        out_path ==
            "invoices/" \o slugify(recipient.display_name) \o "/"
                \o ToStr(form.invoice_date.year) \o "/" \o invoice_number
                \o ".pdf"
        entry ==
            [invoice_number |-> invoice_number,
             recipient |-> Concat(recipient.display_name),
             recipient_id |-> recipient.id,
             service_category |-> form.service_category,
             output_path |-> out_path,
             created_at |-> at.iso,
             payment_method |-> Get(payment, "method_type", "bank_domestic")]
        written == disk \cup {out_path}
        appended == AppendJsonl(history, entry)
        items == ReadJsonl(appended)
        kept == SelectSeq(items, LAMBDA item : PruneKeeps(item, written))
        pruned == IF Len(kept) # Len(items)
                  THEN WriteJsonl(appended, kept) ELSE appended
    IN  IF form.outcome # "ok"
        THEN /\ call' = [op |-> "generate_invoice", prior |-> call.op,
                         ok |-> FALSE, outcome |-> form.outcome]
             /\ disk' \in IF form.outcome = "compose_fails"
                          THEN {disk, written} ELSE {disk}
             /\ history' = history
             /\ UNCHANGED <<seed, local, settings, profiles, now, ui>>
        ELSE /\ Len(history.lines) < MaxHistory
             /\ disk' = written
             /\ history' = pruned
             /\ call' = [op |-> "generate_invoice", prior |-> call.op,
                         ok |-> TRUE, out_path |-> out_path, entry |-> entry,
                         loaded |-> load_history(pruned, 200)]
             /\ UNCHANGED <<seed, local, settings, profiles, now, ui>>

\* The clock moves to its next reading.
Tick ==
    /\ now < Len(Instants)
    /\ now' = now + 1
    /\ call' = [op |-> "tick", prior |-> call.op]
    /\ UNCHANGED <<seed, local, history, disk, settings, profiles, ui>>

NextApp ==
    \/ \E form \in FormInputs : GenerateInvoice(form)
    \/ Tick
    \/ \E limit \in 0..MaxLimit : LoadHistory(limit)
    \/ \E p \in disk : DeleteOutputFile(p)

SpecApp == InitHistory /\ [][NextApp]_vars

---------------------------------------------------------------------------
(* storage.py: the rewrites step by step, with a crash                     *)

\* The position of the single process inside _write_jsonl or
\* save_settings is held in call: op "rewrite" after the file was opened
\* with mode "w", with the number of records written so far; op
\* "settings_open" after the settings file was opened with mode "w".

InProgress == call.op \in {"rewrite", "settings_open"}

\* Lines 89-101 up to the open of line 30, which truncates the log.
PruneOpen ==
    LET items == ReadJsonl(history)
        kept == SelectSeq(items, LAMBDA item : PruneKeeps(item, disk))
    IN  /\ ~InProgress
        /\ Len(kept) # Len(items)
        /\ history' = File(<<>>)
        /\ call' = [op |-> "rewrite", by |-> "prune_missing_history_files",
                    items |-> items, kept |-> kept, written |-> 0]
        /\ UNCHANGED <<seed, local, disk, settings, profiles, now, ui>>

\* Lines 104-107 up to the open of line 30.
RemoveOpen(output_path) ==
    LET items == ReadJsonl(history)
    IN  /\ ~InProgress
        /\ history' = File(<<>>)
        /\ call' = [op |-> "rewrite", by |-> "remove_history_entry",
                    items |-> items, kept |-> RemoveKept(items, output_path),
                    written |-> 0]
        /\ UNCHANGED <<seed, local, disk, settings, profiles, now, ui>>

\* Lines 31-32: one record reaches the file.
WriteRecord ==
    /\ call.op = "rewrite"
    /\ call.written < Len(call.kept)
    /\ history' = File(Append(history.lines, call.kept[call.written + 1]))
    /\ call' = [call EXCEPT !.written = call.written + 1]
    /\ UNCHANGED <<seed, local, disk, settings, profiles, now, ui>>

\* The with block of _write_jsonl is left.
CloseRewrite ==
    /\ call.op = "rewrite"
    /\ call.written = Len(call.kept)
    /\ call' = [op |-> call.by, prior |-> "rewrite", items |-> call.items,
                wrote |-> TRUE]
    /\ UNCHANGED <<seed, local, history, disk, settings, profiles, now, ui>>

\* Lines 117-119: the settings file is opened with mode "w" and is empty.
SaveSettingsOpen(doc) ==
    /\ ~InProgress
    /\ settings' = [exists |-> TRUE, doc |-> EmptyDict, torn |-> TRUE]
    /\ call' = [op |-> "settings_open", before |-> settings, doc |-> doc]
    /\ UNCHANGED <<seed, local, history, disk, profiles, now, ui>>

\* Line 120: json.dump and the close.
SaveSettingsDump ==
    /\ call.op = "settings_open"
    /\ settings' = WriteSettings(settings, call.doc)
    /\ call' = [op |-> "save_settings", prior |-> "settings_open",
                settings |-> call.doc]
    /\ UNCHANGED <<seed, local, history, disk, profiles, now, ui>>

\* The process dies inside a write; the files stay as they are.
Crash ==
    /\ InProgress
    /\ call' = IF call.op = "rewrite"
               THEN [op |-> "crash", during |-> call.by,
                     items |-> call.items, kept |-> call.kept]
               ELSE [op |-> "crash", during |-> "save_settings",
                     before |-> call.before, doc |-> call.doc]
    /\ UNCHANGED <<seed, local, history, disk, settings, profiles, now, ui>>

CrashSettingsInputs ==
    { [selected_profiles |-> [provider |-> "a"], field_defaults |-> EmptyDict],
      [selected_profiles |-> EmptyDict,
       field_defaults |-> [currency |-> "GBP"]] }

NextCrash ==
    \/ /\ ~InProgress
       /\ \/ \E record \in HistoryInputs : record_invoice_history(record)
          \/ \E p \in OutputPaths : CreateOutputFile(p)
          \/ \E p \in OutputPaths : DeleteOutputFile(p)
    \/ PruneOpen
    \/ \E p \in RemoveArgs : RemoveOpen(p)
    \/ WriteRecord
    \/ CloseRewrite
    \/ \E doc \in CrashSettingsInputs : SaveSettingsOpen(doc)
    \/ SaveSettingsDump
    \/ Crash

SpecCrash == InitHistory /\ [][NextCrash]_vars

---------------------------------------------------------------------------
(* app.py: the profile dialogs and the payment selection                   *)

\* item.get("display_name") or item.get("label"), None as "<None>".
FindKey(item) ==
    IF Get(item, "display_name", "") # "" THEN item.display_name
    ELSE Get(item, "label", "<None>")

\* Lines 543-548: the positions of the profiles of the type whose key is
\* the text shown; _find_profile returns the first and raises on none.
FindHits(profs, type_name, display) ==
    {i \in DOMAIN Get(profs, type_name, <<>>) :
        FindKey(profs[type_name][i]) = display}

Found(profs, type_name, display) == FindHits(profs, type_name, display) # {}

find_profile(profs, type_name, display) ==
    LET hits == FindHits(profs, type_name, display)
    IN  profs[type_name][CHOOSE i \in hits : \A j \in hits : i <= j]

\* The variable a profile type is selected through (lines 904-910).
SelectionOf(u, profile_type) ==
    IF profile_type = "provider" THEN u.provider
    ELSE IF profile_type = "recipient" THEN u.recipient
    ELSE u.payment

\* Lines 1075-1084.
select_record(profs, profile_type, record, u) ==
    LET key == ComboKey(record)
    IN  IF profile_type = "provider" THEN [u EXCEPT !.provider = key]
        ELSE IF profile_type = "recipient" THEN [u EXCEPT !.recipient = key]
        ELSE [reload_payment_combo(profs,
                  [u EXCEPT !.payment_type =
                       Get(record, "method_type", "bank_domestic")])
              EXCEPT !.payment = key]

PaymentTypeLabel(method) ==
    CASE method = "bank_domestic" -> "Domestic bank"
      [] method = "bank_international" -> "International bank"
      [] method = "paypal" -> "PayPal"
      [] OTHER -> method

\* Lines 915-975: the record built from what the dialog returned.  The
\* address and the e-mail are left empty.
NewRecord(profile_type, id, result, method) ==
    IF profile_type = "provider"
    THEN [type |-> "provider", id |-> id,
          display_name |-> result.name, address_lines |-> <<>>, email |-> ""]
    ELSE IF profile_type = "recipient"
    THEN [type |-> "recipient", id |-> id,
          display_name |-> result.name, address_lines |-> <<>>, email |-> "",
          student_name |-> ""]
    ELSE [type |-> "payment_method", id |-> id,
          label |-> IF result.name # "" THEN result.name
                    ELSE PaymentTypeLabel(method) \o " profile",
          method_type |-> method,
          details |-> IF Get(result.details, "currency", "") = ""
                      THEN [currency |-> "GBP"] @@ result.details
                      ELSE result.details]

\* Lines 987-1054: the selected record with the dialog's values.
EditedRecord(profile_type, current, result) ==
    IF profile_type = "provider"
    THEN [display_name |-> result.name, address_lines |-> <<>>,
          email |-> ""] @@ current
    ELSE IF profile_type = "recipient"
    THEN [display_name |-> result.name, address_lines |-> <<>>,
          email |-> "", student_name |-> ""] @@ current
    ELSE [label |-> result.name, details |-> result.details] @@ current

\* The ids uuid4 has not handed out: those no line of the logs carries.
IdPool == {"a", "b", "c"}

FreshIds ==
    {id \in IdPool :
        \A rows \in {ReadJsonl(seed), ReadJsonl(local)} :
            \A i \in DOMAIN rows : Get(rows[i], "id", "<None>") # id}

DialogResults ==
    { [name |-> n, details |-> d] :
        n \in {"Ann", "Bob"}, d \in {[currency |-> "GBP"]} }

PaymentDialogResults ==
    { [name |-> n, details |-> d] :
        n \in {"Bank", "Pay"},
        d \in {[currency |-> "GBP"], [iban |-> "GB1", currency |-> ""]} }

\* An add dialog that reloads the profiles before it saves the record.
AddProfileReloadingFirst(profile_type, id, result) ==
    LET record == NewRecord(profile_type, id, result, ui.payment_type)
        loaded == NormalizeLoadedProfiles(load_profiles(seed, local))
    IN  /\ Len(local.lines) < MaxLocal
        /\ id \in FreshIds
        /\ local' = AppendJsonl(local, record)
        /\ profiles' = loaded
        /\ ui' = select_record(loaded, profile_type, record,
                     load_defaults(loaded, load_settings(settings), ui))
        /\ call' = [op |-> "add_profile", prior |-> call.op,
                    profile_type |-> profile_type, record |-> record]
        /\ UNCHANGED <<seed, history, disk, settings, now>>

\* Lines 914-979.
AddProfile(profile_type, id, result) ==
    LET record == NewRecord(profile_type, id, result, ui.payment_type)
        written == AppendJsonl(local, record)
        loaded == NormalizeLoadedProfiles(load_profiles(seed, written))
    IN  /\ Len(local.lines) < MaxLocal
        /\ id \in FreshIds
        /\ local' = written
        /\ profiles' = loaded
        /\ ui' = select_record(loaded, profile_type, record,
                     load_defaults(loaded, load_settings(settings), ui))
        /\ call' = [op |-> "add_profile", prior |-> call.op,
                    profile_type |-> profile_type, record |-> record]
        /\ UNCHANGED <<seed, history, disk, settings, now>>

\* Lines 981-1059, a profile being selected and the dialog confirmed.
EditProfile(profile_type, result) ==
    /\ Len(local.lines) < MaxLocal
    /\ Found(profiles, profile_type, SelectionOf(ui, profile_type))
    /\ LET current == find_profile(profiles, profile_type,
                                   SelectionOf(ui, profile_type))
           record == EditedRecord(profile_type, current, result)
           written == AppendJsonl(local, record)
           loaded == NormalizeLoadedProfiles(load_profiles(seed, written))
       IN  /\ local' = written
           /\ profiles' = loaded
           /\ ui' = select_record(loaded, profile_type, record,
                        load_defaults(loaded, load_settings(settings), ui))
           /\ call' = [op |-> "edit_profile", prior |-> call.op,
                       profile_type |-> profile_type, record |-> record]
    /\ UNCHANGED <<seed, history, disk, settings, now>>

\* Lines 1061-1073, a profile being selected and the question confirmed.
DeleteProfile(profile_type) ==
    /\ Len(local.lines) < MaxLocal
    /\ Found(profiles, profile_type, SelectionOf(ui, profile_type))
    /\ LET current == find_profile(profiles, profile_type,
                                   SelectionOf(ui, profile_type))
           written == AppendJsonl(local,
                          [id |-> current.id, type |-> profile_type,
                           _deleted |-> TRUE])
           loaded == NormalizeLoadedProfiles(load_profiles(seed, written))
       IN  /\ local' = written
           /\ profiles' = loaded
           /\ ui' = load_defaults(loaded, load_settings(settings), ui)
           /\ call' = [op |-> "delete_profile_dialog", prior |-> call.op,
                       profile_type |-> profile_type, record |-> current]
    /\ UNCHANGED <<seed, history, disk, settings, now>>

\* The user picks an entry of a combo box (lines 498-507, 430).
SelectEntry(profile_type, i) ==
    LET values ==
            IF profile_type = "payment_method"
            THEN payment_combo_values(profiles, ui.payment_type)
            ELSE [k \in DOMAIN Get(profiles, profile_type, <<>>) |->
                     profiles[profile_type][k].display_name]
    IN  /\ i \in DOMAIN values
        /\ ui' = IF profile_type = "provider"
                 THEN [ui EXCEPT !.provider = values[i]]
                 ELSE IF profile_type = "recipient"
                 THEN [ui EXCEPT !.recipient = values[i]]
                 ELSE [ui EXCEPT !.payment = values[i]]
        /\ call' = [op |-> "select_entry", profile_type |-> profile_type]
        /\ UNCHANGED <<seed, local, history, disk, settings, profiles, now>>

NextDialogs ==
    \/ \E t \in {"provider", "recipient"}, id \in IdPool,
          result \in DialogResults : AddProfile(t, id, result)
    \/ \E id \in IdPool, result \in PaymentDialogResults :
          AddProfile("payment_method", id, result)
    \/ \E t \in {"provider", "recipient"}, result \in DialogResults :
          EditProfile(t, result)
    \/ \E result \in PaymentDialogResults :
          EditProfile("payment_method", result)
    \/ \E t \in BaseTypes : DeleteProfile(t)
    \/ \E t \in BaseTypes, i \in 1..MaxLocal : SelectEntry(t, i)

SpecDialogs == Init /\ [][NextDialogs]_vars

---------------------------------------------------------------------------
(* storage.py: a log with a line that json.loads rejects                   *)

\* A non-blank line that is not a JSON document: json.loads raises
\* json.JSONDecodeError for it (line 24).
MalformedLine == [malformed |-> TRUE]

\* _read_jsonl raises: the file exists and one of its non-blank lines is
\* rejected by json.loads.  Nothing catches the exception in storage.py.
ReadRaises(file) ==
    /\ file.exists
    /\ \E i \in DOMAIN file.lines : file.lines[i] = MalformedLine

\* The call ends with the exception of _read_jsonl: nothing is returned
\* and, no write having started, every file is as it was.
Raise(op) ==
    /\ call' = [op |-> op, prior |-> call.op, raised |-> "JSONDecodeError"]
    /\ UNCHANGED <<settings, profiles, now, seed, local, history, disk, ui>>

\* Lines 41-57 on logs that may hold a malformed line.
LoadProfilesOrRaise ==
    IF ReadRaises(seed) \/ ReadRaises(local) THEN Raise("load_profiles")
    ELSE LoadProfiles

\* Lines 76-78.
LoadHistoryOrRaise(limit) ==
    IF ReadRaises(history) THEN Raise("load_history")
    ELSE LoadHistory(limit)

\* Lines 89-101.
PruneOrRaise ==
    IF ReadRaises(history) THEN Raise("prune_missing_history_files")
    ELSE prune_missing_history_files

\* A removal whose reader skips the lines it cannot parse.
RemoveSkippingMalformed(output_path) ==
    LET items == SelectSeq(history.lines,
                           LAMBDA raw : raw \notin {BlankLine, MalformedLine})
    IN  /\ history' = WriteJsonl(history, RemoveKept(items, output_path))
        /\ call' = [op |-> "remove_history_entry", prior |-> call.op,
                    output_path |-> output_path, items |-> items,
                    wrote |-> TRUE]
        /\ UNCHANGED <<settings, profiles, now, seed, local, disk, ui>>

\* Lines 104-107.
RemoveOrRaise(output_path) ==
    IF ReadRaises(history) THEN Raise("remove_history_entry")
    ELSE remove_history_entry(output_path)

\* The logs are plain text files: an editor, a merge tool or a torn copy
\* leaves a line that is not JSON at the end of a log.
CorruptLog(target) ==
    /\ target = "local" =>
          /\ Len(local.lines) < MaxLocal
          /\ local' = AppendJsonl(local, MalformedLine)
          /\ history' = history
    /\ target = "history" =>
          /\ Len(history.lines) < MaxHistory
          /\ history' = AppendJsonl(history, MalformedLine)
          /\ local' = local
    /\ call' = [op |-> "corrupt", prior |-> call.op, target |-> target]
    /\ UNCHANGED <<settings, profiles, now, seed, disk, ui>>

\* Records appended next to the malformed lines.
MalformedProfileInputs ==
    { [id |-> "a", type |-> "provider", display_name |-> "Bob"] }

MalformedHistoryInputs ==
    { [invoice_number |-> "INV-1", output_path |-> "p1"],
      [invoice_number |-> "INV-3", output_path |-> "p2"] }

NextMalformed ==
    \/ \E t \in {"local", "history"} : CorruptLog(t)
    \/ \E r \in MalformedProfileInputs : save_profile(r)
    \/ \E r \in MalformedHistoryInputs : record_invoice_history(r)
    \/ LoadProfilesOrRaise
    \/ \E n \in {0, 1} : LoadHistoryOrRaise(n)
    \/ PruneOrRaise
    \/ \E p \in OutputPaths : RemoveOrRaise(p)
    \/ \E p \in OutputPaths : CreateOutputFile(p)

SpecMalformed == InitHistory /\ [][NextMalformed]_vars

---------------------------------------------------------------------------
(* storage.py: two processes on the same history log                       *)

\* Process A runs the rewriting functions of the history log, in the two
\* steps their code has: _read_jsonl with the filter over what was read
\* (lines 90-97, 105-106), then _write_jsonl (lines 99, 107).  Between the
\* two steps call holds what A has in memory: items, kept, and between, the
\* entries other processes appended since the read.  Process B only
\* appends.  One append is one write of one line to a file opened with
\* mode "a" (lines 35-38).
Processes == {"A", "B"}

RewritePending == call.op = "rewrite_read"

\* Entries the two processes record; those of B are told apart by number.
ProcessEntries(proc) ==
    IF proc = "A"
    THEN { [invoice_number |-> "INV-A1", output_path |-> "p1"],
           [invoice_number |-> "INV-A2", output_path |-> ""] }
    ELSE { [invoice_number |-> "INV-B1", output_path |-> "p1"],
           [invoice_number |-> "INV-B2", output_path |-> "p2"] }

\* Lines 72-73, by either process.  A is inside its own rewrite while one
\* is pending, so only B appends then.
RecordByProcess(proc, record) ==
    /\ Len(history.lines) < MaxHistory
    /\ RewritePending => proc = "B"
    /\ history' = AppendJsonl(history, record)
    /\ call' = IF RewritePending
               THEN [call EXCEPT !.between = Append(@, record)]
               ELSE [op |-> "append", proc |-> proc, record |-> record]
    /\ UNCHANGED <<settings, profiles, now, seed, local, disk, ui>>

\* Lines 90-98 of prune_missing_history_files by A.  With nothing to
\* remove the function returns without writing (line 98).
PruneRead ==
    LET items == ReadJsonl(history)
        kept == SelectSeq(items, LAMBDA item : PruneKeeps(item, disk))
    IN  /\ ~RewritePending
        /\ call' = IF Len(kept) = Len(items)
                   THEN [op |-> "prune_nothing", items |-> items]
                   ELSE [op |-> "rewrite_read", fn |-> "prune", items |-> items,
                         kept |-> kept, between |-> <<>>]
        /\ UNCHANGED <<settings, profiles, now, seed, local, history, disk, ui>>

\* Lines 105-106 of remove_history_entry by A.
RemoveRead(output_path) ==
    LET items == ReadJsonl(history)
    IN  /\ ~RewritePending
        /\ call' = [op |-> "rewrite_read", fn |-> "remove", items |-> items,
                    kept |-> RemoveKept(items, output_path), between |-> <<>>]
        /\ UNCHANGED <<settings, profiles, now, seed, local, history, disk, ui>>

\* A write that first appends what reached the log since the read.
RewriteWriteMerging ==
    /\ RewritePending
    /\ history' = WriteJsonl(history, call.kept \o call.between)
    /\ call' = [call EXCEPT !.op = "rewrite_written"]
    /\ UNCHANGED <<settings, profiles, now, seed, local, disk, ui>>

\* Lines 99 and 107: _write_jsonl(HISTORY_FILE, kept) by A.
RewriteWrite ==
    /\ RewritePending
    /\ history' = WriteJsonl(history, call.kept)
    /\ call' = [call EXCEPT !.op = "rewrite_written"]
    /\ UNCHANGED <<settings, profiles, now, seed, local, disk, ui>>

NextProcesses ==
    \/ \E proc \in Processes : \E r \in ProcessEntries(proc) :
           RecordByProcess(proc, r)
    \/ PruneRead
    \/ \E p \in OutputPaths : RemoveRead(p)
    \/ RewriteWrite

SpecProcesses == InitHistory /\ [][NextProcesses]_vars

---------------------------------------------------------------------------
(* storage.py: the local log removed by the user                           *)

\* LOCAL_FILE is a plain file of the data directory (line 10); the store
\* never deletes it, the user can.  removed keeps the log that was deleted.
RemoveLocalLog ==
    /\ local.exists
    /\ local' = AbsentFile
    /\ call' = [op |-> "remove_local_log", prior |-> call.op, removed |-> local]
    /\ UNCHANGED <<settings, profiles, now, seed, history, disk, ui>>

\* Records saved after a deletion: the id under its own type, under
\* another type, another id, and a row without a type.
TombstoneInputs ==
    { [id |-> "a", type |-> "provider", display_name |-> "Bob"],
      [id |-> "a", type |-> "recipient", display_name |-> "Zed"],
      [id |-> "b", type |-> "provider", display_name |-> "Ann"],
      [id |-> "a", _deleted |-> TRUE] }

NextTombstones ==
    \/ \E record \in TombstoneInputs : save_profile(record)
    \/ \E record \in TombstoneInputs : upsert_profile(record)
    \/ \E id \in ProfileIds, type \in DeleteTypes : delete_profile(id, type)
    \/ LoadProfiles
    \/ RemoveLocalLog

SpecTombstones == Init /\ [][NextTombstones]_vars

---------------------------------------------------------------------------
(* app.py: the payment type and the payment selection                      *)

\* The user picks a payment type: the widget sets payment_type_var and
\* then runs _on_payment_type_changed (lines 540-541).
ChangePaymentType(method) ==
    /\ method # ui.payment_type
    /\ ui' = reload_payment_combo(profiles, [ui EXCEPT !.payment_type = method])
    /\ call' = [op |-> "payment_type_changed", method |-> method]
    /\ UNCHANGED <<seed, local, history, disk, settings, profiles, now>>

\* Lines 550-563 for the payment method, a payment profile being selected.
SetDefaultPayment ==
    /\ Found(profiles, "payment_method", ui.payment)
    /\ LET doc == load_settings(settings)
           selected == Get(doc, "selected_profiles", EmptyDict)
           chosen == [payment_method_id |->
                          find_profile(profiles, "payment_method", ui.payment).id,
                      payment_type |-> ui.payment_type] @@ selected
       IN  settings' = WriteSettings(settings,
                           [selected_profiles |-> chosen] @@ doc)
    /\ call' = [op |-> "set_default_profile"]
    /\ UNCHANGED <<seed, local, history, disk, profiles, now, ui>>

\* The application is closed and started again (lines 195-243): the
\* settings and the profiles are loaded, the selection variables start
\* from their initial values, _load_defaults runs, the history is pruned.
Restart ==
    LET loaded == NormalizeLoadedProfiles(load_profiles(seed, local))
        items == ReadJsonl(history)
        kept == SelectSeq(items, LAMBDA item : PruneKeeps(item, disk))
    IN  /\ profiles' = loaded
        /\ ui' = load_defaults(loaded, load_settings(settings), InitialUi)
        /\ history' = IF Len(kept) # Len(items) THEN WriteJsonl(history, kept)
                      ELSE history
        /\ call' = [op |-> "restart"]
        /\ UNCHANGED <<seed, local, disk, settings, now>>

\* What the payment dialog returns: two labels.
SelectionResults ==
    { [name |-> n, details |-> [currency |-> "GBP"]] : n \in {"Bank", "Pay"} }

NextSelection ==
    \/ \E method \in PaymentTypes : ChangePaymentType(method)
    \/ \E id \in ProfileIds, result \in SelectionResults :
          AddProfile("payment_method", id, result)
    \/ \E result \in SelectionResults :
          EditProfile("payment_method", result)
    \/ DeleteProfile("payment_method")
    \/ \E i \in 1..MaxLocal : SelectEntry("payment_method", i)
    \/ SetDefaultPayment
    \/ Restart

SpecSelection == InitHistory /\ [][NextSelection]_vars

---------------------------------------------------------------------------
(* Vocabulary of the properties                                            *)

\* The records of a grouped result, over all groups.
AllReturned(grouped) ==
    UNION {{grouped[t][i] : i \in DOMAIN grouped[t]} : t \in DOMAIN grouped}

ReturnedWithId(grouped, id) == {r \in AllReturned(grouped) : r.id = id}

\* Number of places, over all groups, at which id occurs.
Occurrences(grouped, id) ==
    Cardinality({<<t, i>> \in UNION {{t} \X DOMAIN grouped[t] :
                                        t \in DOMAIN grouped} :
                    grouped[t][i].id = id})

\* The row carries the soft-delete marker.
Marked(row) == "_deleted" \in DOMAIN row /\ row._deleted

Mentions(row, id) == "id" \in DOMAIN row /\ row.id = id

WellFormed(row) == "id" \in DOMAIN row /\ "type" \in DOMAIN row

\* The positions of the rows of a log that satisfy Test, and the last one.
Positions(rows, Test(_)) == {i \in DOMAIN rows : Test(rows[i])}

LastPosition(rows, Test(_)) ==
    CHOOSE i \in Positions(rows, Test) :
        \A j \in Positions(rows, Test) : j <= i

\* The last row satisfying Test, every local row counting as later than
\* every seed row.  Defined when such a row exists.
LatestRow(seedRows, localRows, Test(_)) ==
    IF Positions(localRows, Test) # {}
    THEN localRows[LastPosition(localRows, Test)]
    ELSE seedRows[LastPosition(seedRows, Test)]

HasRow(seedRows, localRows, Test(_)) ==
    Positions(localRows, Test) # {} \/ Positions(seedRows, Test) # {}

IsPrefix(s, t) == Len(s) <= Len(t) /\ SubSeq(t, 1, Len(s)) = s

SeedRows == ReadJsonl(seed)

LocalRows == ReadJsonl(local)

Tombstone(id, type) == [id |-> id, type |-> type, _deleted |-> TRUE]

\* The local log holds a record of id, later the tombstone that
\* delete_profile(id, that record's type) writes, and no later line of id.
SavedThenDeleted(lines, id) ==
    \E i, j \in DOMAIN lines :
        /\ i < j
        /\ WellFormed(lines[i]) /\ lines[i].id = id
        /\ lines[j] = Tombstone(id, lines[i].type)
        /\ \A k \in DOMAIN lines : k > j => ~Mentions(lines[k], id)

---------------------------------------------------------------------------
(* C1 *)

\* C1 as stated: load_profiles returns, for each id, the last record
\* appended with that id (local records later than seed records), and
\* nothing of an earlier record with that id.  An id whose last record is
\* a tombstone is returned in no group.
C1_LastAppendedRecordWins ==
    call.op = "load_profiles" =>
        \A id \in ProfileIds :
            HasRow(SeedRows, LocalRows, LAMBDA row : Mentions(row, id)) =>
                LET last == LatestRow(SeedRows, LocalRows,
                                      LAMBDA row : Mentions(row, id))
                IN  ReturnedWithId(call.ret, id) =
                        IF Marked(last) THEN {} ELSE {last}

\* C1 amended: load_profiles returns, for each id, the last record with
\* that id that has both keys id and type (local records later than seed
\* records); a record that lacks the key type shadows nothing.
C1_LastWellFormedRecordWins ==
    call.op = "load_profiles" =>
        \A id \in ProfileIds :
            LET OfId(row) == WellFormed(row) /\ row.id = id
            IN  IF HasRow(SeedRows, LocalRows, OfId)
                THEN LET last == LatestRow(SeedRows, LocalRows, OfId)
                     IN  ReturnedWithId(call.ret, id) =
                             IF Marked(last) THEN {} ELSE {last}
                ELSE ReturnedWithId(call.ret, id) = {}

\* A load after two local records of one id with different fields, the id
\* being in the seed log as well: the later local record is returned.
C1_Witness ==
    /\ call.op = "load_profiles"
    /\ \E i, j \in DOMAIN LocalRows, k \in DOMAIN SeedRows :
        /\ i < j
        /\ WellFormed(LocalRows[i]) /\ WellFormed(LocalRows[j])
        /\ WellFormed(SeedRows[k])
        /\ LocalRows[i].id = LocalRows[j].id
        /\ SeedRows[k].id = LocalRows[j].id
        /\ LocalRows[i] # LocalRows[j]
        /\ SeedRows[k] # LocalRows[j]
        /\ ReturnedWithId(call.ret, LocalRows[j].id) = {LocalRows[j]}

---------------------------------------------------------------------------
(* C2 *)

\* C2: delete_profile adds the tombstone after the lines already in the
\* local log, and a load made when a record of an id is followed by the
\* tombstone of its id and type, with no later line of that id, returns
\* the id in no group and leaves the log as it is.
C2_TombstoneExclusion ==
    [][ /\ call'.op = "delete_profile" =>
              local'.lines = Append(local.lines,
                                    Tombstone(call'.id, call'.type))
        /\ call'.op = "load_profiles" =>
              /\ local' = local
              /\ \A id \in ProfileIds :
                    SavedThenDeleted(local.lines, id) =>
                        ReturnedWithId(call'.ret, id) = {} ]_vars

\* A load right after save_profile(p) and delete_profile(p.id, p.type):
\* both lines are in the log and the id is not returned.
C2_Witness ==
    /\ call.op = "load_profiles"
    /\ call.prior = "delete_profile"
    /\ \E id \in ProfileIds :
        /\ SavedThenDeleted(local.lines, id)
        /\ ReturnedWithId(call.ret, id) = {}
        /\ Cardinality(Positions(local.lines,
                                 LAMBDA row : Mentions(row, id))) >= 2

---------------------------------------------------------------------------
(* C3 *)

\* C3 as stated: an id whose latest record carries the soft-delete marker
\* is in no group of load_profiles, whatever the logs hold, and the line
\* delete_profile appends is {id, type, marker: true}.
C3_LatestMarkedRecordExcluded ==
    /\ call.op = "delete_profile" =>
          Last(local.lines) = Tombstone(call.id, call.type)
    /\ call.op = "load_profiles" =>
          \A id \in ProfileIds :
              ( /\ HasRow(SeedRows, LocalRows, LAMBDA row : Mentions(row, id))
                /\ Marked(LatestRow(SeedRows, LocalRows,
                                       LAMBDA row : Mentions(row, id))) )
              => ReturnedWithId(call.ret, id) = {}

\* C3 amended: an id whose latest record among those that have both keys
\* id and type carries the marker _deleted is in no group of
\* load_profiles, and the line delete_profile appends is
\* {id, type, _deleted: true}.
C3_LatestWellFormedMarkedExcluded ==
    /\ call.op = "delete_profile" =>
          Last(local.lines) = Tombstone(call.id, call.type)
    /\ call.op = "load_profiles" =>
          \A id \in ProfileIds :
              LET OfId(row) == WellFormed(row) /\ row.id = id
              IN  ( /\ HasRow(SeedRows, LocalRows, OfId)
                    /\ Marked(LatestRow(SeedRows, LocalRows, OfId)) )
                  => ReturnedWithId(call.ret, id) = {}

\* A load when the latest well-formed record of an id that the seed log
\* ships is a marked record of the local log.
C3_Witness ==
    /\ call.op = "load_profiles"
    /\ \E id \in ProfileIds :
        LET OfId(row) == WellFormed(row) /\ row.id = id
        IN  /\ Positions(SeedRows, OfId) # {}
            /\ \E i \in Positions(SeedRows, OfId) : ~Marked(SeedRows[i])
            /\ Positions(LocalRows, OfId) # {}
            /\ Marked(LatestRow(SeedRows, LocalRows, OfId))
            /\ ReturnedWithId(call.ret, id) = {}

---------------------------------------------------------------------------
(* C4 *)

\* C4: no call changes the seed log, and every call leaves the local log
\* as it was or adds one line at its end.
C4_AppendOnly ==
    [][ /\ seed' = seed
        /\ IsPrefix(local.lines, local'.lines)
        /\ Len(local'.lines) <= Len(local.lines) + 1
        /\ local.exists => local'.exists ]_vars

\* A delete_profile made after a load, on a local log that already held
\* two lines, next to a seed log with lines.
C4_Witness ==
    /\ call.op = "delete_profile"
    /\ call.prior = "load_profiles"
    /\ Len(local.lines) = 3
    /\ Len(seed.lines) >= 1

---------------------------------------------------------------------------
(* C5 *)

\* C5: load_profiles changes no file, and a load_profiles that directly
\* follows a load_profiles returns the same groups with the same records
\* in the same order.
C5_LoadIdempotent ==
    [][ call'.op = "load_profiles" =>
            /\ seed' = seed /\ local' = local
            /\ history' = history /\ disk' = disk
            /\ call.op = "load_profiles" => call'.ret = call.ret ]_vars

\* The second of two consecutive loads, returning a group of two records.
C5_Witness ==
    /\ call.op = "load_profiles"
    /\ call.prior = "load_profiles"
    /\ \E t \in DOMAIN call.ret : Len(call.ret[t]) >= 2

---------------------------------------------------------------------------
(* C6 *)

\* C6: in the result of load_profiles every id occurs at most once over
\* all groups together, in the group of the type of its latest record
\* that has both keys.
C6_IdUniqueAcrossGroups ==
    call.op = "load_profiles" =>
        \A id \in ProfileIds :
            /\ Occurrences(call.ret, id) <= 1
            /\ \A t \in DOMAIN call.ret : \A i \in DOMAIN call.ret[t] :
                  call.ret[t][i].id = id =>
                      t = LatestRow(SeedRows, LocalRows,
                                    LAMBDA row : WellFormed(row)
                                                 /\ row.id = id).type

\* A load when the logs hold one id under two types: the id is returned
\* once, under the later type.
C6_Witness ==
    /\ call.op = "load_profiles"
    /\ \E id \in ProfileIds :
        LET rows == SeedRows \o LocalRows
            OfId(row) == WellFormed(row) /\ row.id = id
        IN  /\ \E i, j \in Positions(rows, OfId) :
                  i < j /\ rows[i].type # rows[j].type
                  /\ j = LastPosition(rows, OfId)
                  /\ ~Marked(rows[i]) /\ ~Marked(rows[j])
            /\ Occurrences(call.ret, id) = 1

---------------------------------------------------------------------------
(* C7 *)

HistoryRows == ReadJsonl(history)

Min(a, b) == IF a <= b THEN a ELSE b

\* C7 as stated: after prune_missing_history_files the history log holds
\* exactly the previous entries whose output_path exists on disk, in their
\* previous order.
C7_PruneKeepsExactlyExisting ==
    [][ call'.op = "prune_missing_history_files" =>
            ReadJsonl(history') =
                SelectSeq(HistoryRows,
                          LAMBDA e : "output_path" \in DOMAIN e
                                     /\ e.output_path \in disk) ]_vars

\* C7 amended: after prune_missing_history_files the history log holds
\* exactly the previous entries whose output_path is missing, empty or
\* the path of something that exists on disk, in their previous order;
\* every entry with a non-empty output_path that does not exist is gone.
C7_PruneKeepsExistingOrPathless ==
    [][ call'.op = "prune_missing_history_files" =>
            /\ ReadJsonl(history') =
                  SelectSeq(HistoryRows,
                            LAMBDA e : \/ "output_path" \notin DOMAIN e
                                       \/ e.output_path = ""
                                       \/ e.output_path \in disk)
            /\ \A i \in DOMAIN ReadJsonl(history') :
                  LET e == ReadJsonl(history')[i]
                  IN  Get(e, "output_path", "") # "" => e.output_path \in disk
       ]_vars

\* A prune of three entries that dropped one and kept an entry whose file
\* exists and an entry without a path.
C7_Witness ==
    /\ call.op = "prune_missing_history_files"
    /\ Len(call.items) = 3
    /\ call.ret = 1
    /\ \E i, j \in DOMAIN history.lines :
          /\ Get(history.lines[i], "output_path", "") \in disk
          /\ Get(history.lines[j], "output_path", "") = ""

---------------------------------------------------------------------------
(* C8 *)

\* C8: prune_missing_history_files returns the number of entries it
\* dropped, and a prune that directly follows a prune returns 0, does not
\* call _write_jsonl and leaves the history log as it is.
C8_PruneCountsAndIsIdempotent ==
    [][ call'.op = "prune_missing_history_files" =>
            /\ call'.ret = Len(HistoryRows) - Len(ReadJsonl(history'))
            /\ call.op = "prune_missing_history_files" =>
                  /\ call'.ret = 0
                  /\ ~call'.wrote
                  /\ history' = history ]_vars

\* The second of two consecutive prunes, on a log that still has entries
\* with and without an existing file path.
C8_Witness ==
    /\ call.op = "prune_missing_history_files"
    /\ call.prior = "prune_missing_history_files"
    /\ call.ret = 0
    /\ ~call.wrote
    /\ Len(history.lines) >= 2

---------------------------------------------------------------------------
(* C9 *)

\* C9: load_history(limit) returns min(limit, n) entries, the last limit
\* entries of the log, most recent first.
C9_LoadHistoryReturnsLastLimit ==
    call.op = "load_history" =>
        LET n == Len(HistoryRows)
            m == Min(call.limit, n)
        IN  /\ Len(call.ret) = m
            /\ \A i \in 1..m : call.ret[i] = HistoryRows[n + 1 - i]

---------------------------------------------------------------------------
(* C10 *)

RECURSIVE WithoutPath(_, _)
WithoutPath(items, p) ==
    IF items = <<>> THEN <<>>
    ELSE (IF "output_path" \in DOMAIN Head(items)
             /\ Head(items).output_path = p
          THEN <<>> ELSE <<Head(items)>>) \o WithoutPath(Tail(items), p)

\* C10: remove_history_entry(p) leaves the history log holding its
\* previous entries without those whose output_path is p, duplicates
\* included, the others in their previous order.
C10_RemoveDropsEveryMatch ==
    [][ call'.op = "remove_history_entry" =>
            /\ history'.exists
            /\ history'.lines = WithoutPath(HistoryRows, call'.output_path)
            /\ \A i \in DOMAIN history'.lines :
                  Get(history'.lines[i], "output_path", "<None>")
                      # call'.output_path ]_vars

\* A removal on a log that held two entries of the removed path and an
\* entry of another path.
C10_Witness ==
    /\ call.op = "remove_history_entry"
    /\ Cardinality({i \in DOMAIN call.items :
                       Get(call.items[i], "output_path", "<None>")
                           = call.output_path}) = 2
    /\ Len(history.lines) = 1

---------------------------------------------------------------------------
(* C12 *)

\* C12: load_settings returns {selected_profiles: {}, field_defaults: {}}
\* when there is no settings file, changes nothing, and a load_settings
\* that directly follows save_settings(s) returns exactly s, whatever
\* document was stored before.
C12_SettingsWholeDocument ==
    [][ call'.op = "load_settings" =>
            /\ settings' = settings
            /\ ~settings.exists =>
                  call'.ret = [selected_profiles |-> [k \in {} |-> ""],
                               field_defaults |-> [k \in {} |-> ""]]
            /\ call.op = "save_settings" => call'.ret = call.settings ]_vars

\* A load after a save that followed another save: the document returned
\* is the one saved last and has none of the keys that only an earlier
\* document could have supplied.
C12_Witness ==
    /\ call.op = "load_settings"
    /\ call.prior = "save_settings"
    /\ settings.exists
    /\ call.ret = settings.doc
    /\ DOMAIN call.ret = {"field_defaults"}

---------------------------------------------------------------------------
(* C13 *)

\* C13: when the files it reads do not exist, load_profiles returns the
\* three groups provider, recipient and payment_method, all empty,
\* load_history returns an empty list and prune_missing_history_files
\* returns 0; none of the three creates or changes a file.
C13_AbsentFilesAreEmpty ==
    [][ /\ call'.op \in {"load_profiles", "load_history",
                         "prune_missing_history_files"} =>
              /\ seed'.exists = seed.exists
              /\ local'.exists = local.exists
              /\ settings'.exists = settings.exists
              /\ ~history.exists => ~history'.exists
        /\ (call'.op = "load_profiles" /\ ~seed.exists /\ ~local.exists) =>
              /\ DOMAIN call'.ret = {"provider", "recipient", "payment_method"}
              /\ \A t \in DOMAIN call'.ret : call'.ret[t] = <<>>
        /\ (call'.op = "load_history" /\ ~history.exists) =>
              call'.ret = <<>>
        /\ (call'.op = "prune_missing_history_files" /\ ~history.exists) =>
              call'.ret = 0 ]_vars

\* A prune right after a load_history, no file existing before or after.
C13_Witness ==
    /\ call.op = "prune_missing_history_files"
    /\ call.prior = "load_history"
    /\ call.ret = 0
    /\ ~seed.exists /\ ~local.exists /\ ~history.exists /\ ~settings.exists

---------------------------------------------------------------------------
(* C14 *)

\* The name a record is listed under: display_name, else label, else id,
\* a missing and an empty value both falling through.
ListedName(r) ==
    IF "display_name" \in DOMAIN r /\ r.display_name # "" THEN r.display_name
    ELSE IF "label" \in DOMAIN r /\ r.label # "" THEN r.label
    ELSE r.id

\* Position at which an id first occurs in the logs, seed log first.
FirstSeen(id) ==
    LET rows == SeedRows \o LocalRows
    IN  CHOOSE i \in DOMAIN rows :
            /\ WellFormed(rows[i]) /\ rows[i].id = id
            /\ \A j \in DOMAIN rows :
                  (WellFormed(rows[j]) /\ rows[j].id = id) => i <= j

\* C14: every group load_profiles returns is in non-decreasing order of
\* the listed name (display_name, else label, else id), and records with
\* equal names are in the order in which their ids first occur in the
\* logs.
C14_GroupsSorted ==
    call.op = "load_profiles" =>
        \A t \in DOMAIN call.ret :
            \A i, j \in DOMAIN call.ret[t] :
                i < j =>
                    LET x == call.ret[t][i]
                        y == call.ret[t][j]
                    IN  /\ Rank(ListedName(x)) <= Rank(ListedName(y))
                        /\ ListedName(x) = ListedName(y) =>
                              FirstSeen(x.id) < FirstSeen(y.id)

\* A load returning a group of three whose order differs from the order
\* of the logs, with two equal names and a record named by its label.
C14_Witness ==
    /\ call.op = "load_profiles"
    /\ \E t \in DOMAIN call.ret :
        LET g == call.ret[t]
        IN  /\ Len(g) = 3
            /\ \E i, j \in DOMAIN g :
                  i < j /\ FirstSeen(g[i].id) > FirstSeen(g[j].id)
            /\ \E i, j \in DOMAIN g :
                  i < j /\ ListedName(g[i]) = ListedName(g[j])
            /\ \E i \in DOMAIN g :
                  /\ Get(g[i], "display_name", "") = ""
                  /\ Get(g[i], "label", "") # ""

---------------------------------------------------------------------------
(* C15 *)

\* What a legacy bank_transfer method is to become.
Reclassified(p) ==
    IF /\ "details" \in DOMAIN p
       /\ "iban" \in DOMAIN p.details
       /\ p.details.iban # ""
    THEN "bank_international" ELSE "bank_domestic"

IsLegacy(p) == "method_type" \in DOMAIN p /\ p.method_type = "bank_transfer"

\* C15: after the application has loaded the profiles no payment method
\* it holds has method_type bank_transfer; every payment method loaded as
\* bank_transfer is held as bank_international when its details have a
\* non-empty iban and as bank_domestic otherwise, nothing else about it
\* changed; every other payment method and every other group is held as
\* loaded.
C15_LegacyReclassified ==
    call.op = "reload_profiles" =>
        /\ DOMAIN profiles = DOMAIN call.loaded
        /\ \A t \in DOMAIN profiles :
              IF t = "payment_method"
              THEN /\ Len(profiles[t]) = Len(call.loaded[t])
                   /\ \A i \in DOMAIN profiles[t] :
                        LET p == call.loaded[t][i]
                            q == profiles[t][i]
                        IN  /\ ~IsLegacy(q)
                            /\ IsLegacy(p) =>
                                  /\ DOMAIN q = DOMAIN p
                                  /\ q.method_type = Reclassified(p)
                                  /\ \A k \in DOMAIN p \ {"method_type"} :
                                        q[k] = p[k]
                            /\ ~IsLegacy(p) => q = p
              ELSE profiles[t] = call.loaded[t]

\* A reload that turned one legacy method into bank_international and
\* another into bank_domestic.
C15_Witness ==
    /\ call.op = "reload_profiles"
    /\ \E i, j \in DOMAIN call.loaded["payment_method"] :
        /\ IsLegacy(call.loaded["payment_method"][i])
        /\ IsLegacy(call.loaded["payment_method"][j])
        /\ profiles["payment_method"][i].method_type = "bank_international"
        /\ profiles["payment_method"][j].method_type = "bank_domestic"

---------------------------------------------------------------------------
(* C16 *)

RowLabels(rows) == [i \in DOMAIN rows |-> rows[i][1]]

HasIban(method) ==
    /\ "details" \in DOMAIN method
    /\ "iban" \in DOMAIN method.details
    /\ method.details.iban # ""

PaypalLabels ==
    <<"Payment method", "Payment currency", "PayPal email", "PayPal link",
      "Reference">>

DomesticLabels ==
    <<"Payment method", "Payment currency", "Account holder", "Bank",
      "Sort code", "Account number", "Reference">>

InternationalLabels ==
    <<"Payment method", "Payment currency", "Account holder", "Bank",
      "Sort code", "Account number", "IBAN", "BIC/SWIFT", "Reference">>

\* C16: the rows payment_rows returns are, by label and in order, the
\* PayPal rows for method_type paypal, the domestic rows (no IBAN and no
\* BIC/SWIFT row) for bank_domestic and for bank_transfer without IBAN,
\* and the domestic rows plus IBAN and BIC/SWIFT for bank_international
\* and for bank_transfer with IBAN.
C16_PaymentBlockShape ==
    (call.op = "payment_rows" /\ "method_type" \in DOMAIN call.payment_method)
    =>
        LET m == call.payment_method
            labels == RowLabels(call.ret)
        IN  /\ m.method_type = "paypal" => labels = PaypalLabels
            /\ (\/ m.method_type = "bank_domestic"
                \/ m.method_type = "bank_transfer" /\ ~HasIban(m))
                  => labels = DomesticLabels
            /\ (\/ m.method_type = "bank_international"
                \/ m.method_type = "bank_transfer" /\ HasIban(m))
                  => labels = InternationalLabels

---------------------------------------------------------------------------
(* C17 *)

\* C17: on every invoice built, the amount of the billed line is the text
\* of session_duration_hours times rate_per_hour, the subtotal and the
\* total are that same text, and the amount of the preparation line is
\* 0.00 whatever prep_hours and prep_rate are.
C17_AmountComputation ==
    call.op = "build_invoice_pdf" =>
        LET hours == call.invoice.session_duration_hours
            rate == IF "rate_per_hour" \in DOMAIN call.invoice
                    THEN call.invoice.rate_per_hour ELSE 0
        IN  /\ call.ret.billed_amount = money(hours * rate)
            /\ call.ret.subtotal = call.ret.billed_amount
            /\ call.ret.total = call.ret.billed_amount
            /\ call.ret.prep_amount = "0.00"

\* 1.5 hours at 75.00 with two hours of preparation at a rate of 20.00:
\* billed, subtotal and total 112.50, preparation 0.00.
C17_Witness ==
    /\ call.op = "build_invoice_pdf"
    /\ {"rate_per_hour", "prep_hours", "prep_rate"} \subseteq DOMAIN call.invoice
    /\ call.invoice.session_duration_hours = 150
    /\ call.invoice.rate_per_hour = 7500
    /\ call.invoice.prep_hours = 200
    /\ call.invoice.prep_rate = 2000
    /\ call.ret.billed_amount = "112.50"
    /\ call.ret.subtotal = "112.50"
    /\ call.ret.total = "112.50"
    /\ call.ret.prep_amount = "0.00"

---------------------------------------------------------------------------
(* C18 *)

LeapYear(y) ==
    IF y % 400 = 0 THEN TRUE
    ELSE IF y % 100 = 0 THEN FALSE
    ELSE y % 4 = 0

MonthLength(y, m) ==
    <<31, IF LeapYear(y) THEN 29 ELSE 28, 31, 30, 31, 30, 31, 31, 30, 31,
      30, 31>>[m]

\* The calendar day after d.
NextDay(d) ==
    IF d.day < MonthLength(d.year, d.month)
    THEN [d EXCEPT !.day = d.day + 1]
    ELSE IF d.month < 12
         THEN [year |-> d.year, month |-> d.month + 1, day |-> 1]
         ELSE [year |-> d.year + 1, month |-> 1, day |-> 1]

\* The calendar day n days after d.
RECURSIVE DaysLater(_, _)
DaysLater(d, n) == IF n = 0 THEN d ELSE DaysLater(NextDay(d), n - 1)

\* C18: on every invoice built with a due_days n >= 0, the due date shown
\* is the calendar day n days after the invoice date, written dd-mm-yyyy.
C18_DueDateArithmetic ==
    (call.op = "build_invoice_pdf" /\ "due_days" \in DOMAIN call.invoice) =>
        call.ret.due_date =
            fmt_date(DaysLater(call.invoice.invoice_date,
                               call.invoice.due_days))

\* An invoice dated 31 December 2026 and due 40 days later, on
\* 9 February 2027.
C18_Witness ==
    /\ call.op = "build_invoice_pdf"
    /\ "due_days" \in DOMAIN call.invoice
    /\ call.invoice.invoice_date = [year |-> 2026, month |-> 12, day |-> 31]
    /\ call.invoice.due_days = 40
    /\ call.ret.due_date = "09-02-2027"

---------------------------------------------------------------------------
(* C19 *)

\* The reference the document shows: the value of the last payment row.
ShownReference == call.ret.pay_rows[Len(call.ret.pay_rows)][2]

Supplied(invoice) == "reference" \in DOMAIN invoice /\ invoice.reference # ""

IsBlank(name) == \A i \in DOMAIN name : name[i] \in {" ", "\t", "\n"}

\* The name the initials are taken from: the client reference unless it
\* is blank, else the recipient's display name.
ReferenceName(invoice) ==
    IF "student_name" \in DOMAIN invoice /\ ~IsBlank(invoice.student_name)
    THEN invoice.student_name
    ELSE IF "display_name" \in DOMAIN invoice.recipient
         THEN invoice.recipient.display_name
         ELSE <<"C", "l", "i", "e", "n", "t">>

DdMmYy(t) == Pad2(t.day) \o Pad2(t.month) \o Pad2(t.year % 100)

\* C19: the reference shown is the supplied one when the invoice supplies
\* one; otherwise it is the tag "Tut-", an initials part of exactly two
\* characters, "-" and the session start date as ddmmyy.
C19_PaymentReference ==
    call.op = "build_invoice_pdf" =>
        IF Supplied(call.invoice)
        THEN ShownReference = call.invoice.reference
        ELSE \E a, b \in {UpperCase[i] : i \in DOMAIN UpperCase}
                         \cup {Digit(n) : n \in 0..9} :
                ShownReference =
                    "Tut-" \o a \o b \o "-" \o DdMmYy(call.invoice.session_start)

---------------------------------------------------------------------------
(* C20 *)

AllowedTags ==
    { <<"<", "b", ">">>, <<"<", "/", "b", ">">>, <<"<", "b", "r", "/", ">">> }

Entities ==
    { <<"&", "a", "m", "p", ";">>, <<"&", "l", "t", ";">>,
      <<"&", "g", "t", ";">> }

Begins(s, t) == Len(s) >= Len(t) /\ SubSeq(s, 1, Len(t)) = t

Rest(s, n) == SubSeq(s, n + 1, Len(s))

\* The markup is a sequence of allowed tags, of entities and of characters
\* other than "<", ">", "&" and the newline.
RECURSIVE OnlyAllowedMarkup(_)
OnlyAllowedMarkup(s) ==
    IF s = <<>> THEN TRUE
    ELSE IF \E t \in AllowedTags \cup Entities : Begins(s, t)
         THEN LET t == CHOOSE t \in AllowedTags \cup Entities : Begins(s, t)
              IN  OnlyAllowedMarkup(Rest(s, Len(t)))
         ELSE /\ Head(s) \notin {"<", ">", "&", "\n"}
              /\ OnlyAllowedMarkup(Tail(s))

\* The markup of a text read once from left to right: an allowed tag and
\* the "<br>" spelling stand as the tag, a newline becomes the line break,
\* every other "<", ">" and "&" becomes its entity.
RECURSIVE Sanitized(_)
Sanitized(text) ==
    IF text = <<>> THEN <<>>
    ELSE IF \E t \in AllowedTags : Begins(text, t)
         THEN LET t == CHOOSE t \in AllowedTags : Begins(text, t)
              IN  t \o Sanitized(Rest(text, Len(t)))
    ELSE IF Begins(text, <<"<", "b", "r", ">">>)
         THEN <<"<", "b", "r", "/", ">">> \o Sanitized(Rest(text, 4))
    ELSE IF Head(text) = "\n"
         THEN <<"<", "b", "r", "/", ">">> \o Sanitized(Tail(text))
    ELSE IF Head(text) = "&"
         THEN <<"&", "a", "m", "p", ";">> \o Sanitized(Tail(text))
    ELSE IF Head(text) = "<"
         THEN <<"&", "l", "t", ";">> \o Sanitized(Tail(text))
    ELSE IF Head(text) = ">"
         THEN <<"&", "g", "t", ";">> \o Sanitized(Tail(text))
    ELSE <<Head(text)>> \o Sanitized(Tail(text))

\* C20: the markup safe_para produces consists of the three allowed tags,
\* of entities and of plain characters only, with no newline left; it is
\* the text with its allowed tags kept, each newline turned into a line
\* break and every other "<", ">" and "&" escaped.
C20_SanitizeThenRestore ==
    call.op = "safe_para" =>
        /\ OnlyAllowedMarkup(call.ret)
        /\ call.ret = Sanitized(call.text)

\* A text with a tag outside the allow-list, an ampersand and a newline.
C20_Witness ==
    /\ call.op = "safe_para"
    /\ call.text = <<"<", "r", ">", "&", "\n">>
    /\ call.ret = <<"&", "l", "t", ";", "r", "&", "g", "t", ";",
                    "&", "a", "m", "p", ";", "<", "b", "r", "/", ">">>

---------------------------------------------------------------------------
(* C11 *)

\* Number of entries of the history log f whose output_path is p.
EntriesFor(f, p) ==
    Cardinality({ i \in DOMAIN f.lines :
                    /\ f.lines[i] # BlankLine
                    /\ "output_path" \in DOMAIN f.lines[i]
                    /\ f.lines[i].output_path = p })

\* C11: a successful generation leaves the output file on disk and the
\* history log with one entry more for that file than before, the new
\* entry last in the log; the history the handler loads has that entry
\* first, and so has a load_history that directly follows.
C11_GenerationRoundTrip ==
    [][ /\ (call'.op = "generate_invoice" /\ call'.ok) =>
              /\ call'.out_path \in disk'
              /\ call'.entry.output_path = call'.out_path
              /\ EntriesFor(history', call'.out_path)
                    = EntriesFor(history, call'.out_path) + 1
              /\ history'.lines[Len(history'.lines)] = call'.entry
              /\ call'.loaded # <<>>
              /\ call'.loaded[1] = call'.entry
        /\ (/\ call.op = "generate_invoice" /\ call.ok
            /\ call'.op = "load_history") =>
              /\ call'.ret # <<>>
              /\ call'.ret[1] = call.entry
      ]_vars

\* A successful generation onto the path of an earlier invoice, made at a
\* later reading of the clock: the log holds both entries, the new one is
\* loaded first.
C11_Witness ==
    /\ call.op = "generate_invoice"
    /\ call.ok
    /\ call.out_path \in disk
    /\ EntriesFor(history, call.out_path) = 2
    /\ Len(call.loaded) >= 2
    /\ call.loaded[1] = call.entry
    /\ call.loaded[2] # call.entry

---------------------------------------------------------------------------
(* C21 *)

\* A text with every "<", ">" and "&" as an entity: how it reads when it
\* is shown literally.
RECURSIVE Literal(_)
Literal(text) ==
    IF text = <<>> THEN <<>>
    ELSE (CASE Head(text) = "&" -> <<"&", "a", "m", "p", ";">>
            [] Head(text) = "<" -> <<"&", "l", "t", ";">>
            [] Head(text) = ">" -> <<"&", "g", "t", ";">>
            [] OTHER -> <<Head(text)>>)
         \o Literal(Tail(text))

NoLineBreak(text) == \A i \in DOMAIN text : text[i] # "\n"

\* C21: in the header of the document a display name without line breaks
\* shows as literal text; the only tags are the bold markers and the line
\* break the composer put around and between the lines.
C21_UserTextIsLiteral ==
    (/\ call.op = "compose_header"
     /\ DOMAIN call.party = {"id", "display_name"}
     /\ NoLineBreak(call.party.display_name)) =>
        /\ call.from = <<"<", "b", ">">> \o Literal(call.party.display_name)
                           \o <<"<", "/", "b", ">">>
        /\ call.bill = <<"<", "b", ">", "B", "i", "l", "l", " ", "T", "o", ":", "<", "/", "b", ">">> \o <<"<", "b", "r", "/", ">">>
                           \o Literal(call.party.display_name)

---------------------------------------------------------------------------
(* C22 *)

\* Number of places of the sequence rows that hold entry.
TimesIn(rows, entry) == Cardinality({i \in DOMAIN rows : rows[i] = entry})

\* C22: after a crash inside a history rewrite every entry the operation
\* was keeping is still in the history log; after a crash inside
\* save_settings the settings file is readable and holds the document
\* saved before or the one being saved.
C22_CrashTolerance ==
    call.op = "crash" =>
        IF call.during = "save_settings"
        THEN /\ "torn" \notin DOMAIN settings
             /\ settings \in {call.before, [exists |-> TRUE, doc |-> call.doc]}
        ELSE \A i \in DOMAIN call.kept :
                TimesIn(ReadJsonl(history), call.kept[i])
                    >= TimesIn(call.kept, call.kept[i])

---------------------------------------------------------------------------
(* C23 *)

HeldIn(profs, type, record) ==
    /\ type \in DOMAIN profs
    /\ \E i \in DOMAIN profs[type] : profs[type][i] = record

HeldIds(profs) ==
    UNION {{profs[t][i].id : i \in DOMAIN profs[t]} : t \in DOMAIN profs}

\* C23: when an add, an edit or a delete of a profile has completed, the
\* profiles in memory are the legacy-normalised load of the logs as they
\* now are; the record added or edited is among them under its type, and
\* no profile with the id of the deleted record is.
C23_NoCachingAcrossWrites ==
    call.op \in {"add_profile", "edit_profile", "delete_profile_dialog"} =>
        /\ profiles = NormalizeLoadedProfiles(load_profiles(seed, local))
        /\ call.op \in {"add_profile", "edit_profile"} =>
              HeldIn(profiles, call.profile_type, call.record)
        /\ call.op = "delete_profile_dialog" =>
              call.record.id \notin HeldIds(profiles)

\* A profile is added and then deleted while other profiles remain.
C23_Witness ==
    /\ call.op = "delete_profile_dialog"
    /\ call.prior = "add_profile"
    /\ call.record.id \notin HeldIds(profiles)
    /\ HeldIds(profiles) # {}
    /\ \E i \in DOMAIN local.lines :
          /\ local.lines[i] # BlankLine
          /\ "_deleted" \notin DOMAIN local.lines[i]
          /\ local.lines[i].id = call.record.id

---------------------------------------------------------------------------
(* C24 *)

\* Log g holds some entry more often than log f does.
Gains(f, g) ==
    \E i \in DOMAIN ReadJsonl(g) :
        TimesIn(ReadJsonl(g), ReadJsonl(g)[i])
            > TimesIn(ReadJsonl(f), ReadJsonl(g)[i])

\* C24: a generation that fails, in the profile lookup, in the parsing of
\* the fields or in the composition of the document, leaves the history
\* log as it was; the log gains an entry only in a successful generation,
\* whose file is then on disk.
C24_HistoryOnlyOnSuccess ==
    [][ /\ (call'.op = "generate_invoice" /\ ~call'.ok) => history' = history
        /\ Gains(history, history') =>
              /\ call'.op = "generate_invoice"
              /\ call'.ok
              /\ call'.out_path \in disk'
              /\ TimesIn(ReadJsonl(history'), call'.entry)
                    = TimesIn(ReadJsonl(history), call'.entry) + 1
      ]_vars

\* A composition that failed after an earlier invoice was recorded, and
\* left a file no entry of the log refers to.
C24_Witness ==
    /\ call.op = "generate_invoice"
    /\ ~call.ok
    /\ call.outcome = "compose_fails"
    /\ ReadJsonl(history) # <<>>
    /\ \E p \in disk : EntriesFor(history, p) = 0

---------------------------------------------------------------------------
(* C25 *)

\* C25: two entries of the history log that were created at different
\* times have different invoice numbers and different output paths.
C25_OneFilePerGeneration ==
    \A i, j \in DOMAIN ReadJsonl(history) :
        LET x == ReadJsonl(history)[i]
            y == ReadJsonl(history)[j]
        IN  (i # j /\ x.created_at # y.created_at) =>
                /\ x.invoice_number # y.invoice_number
                /\ x.output_path # y.output_path

---------------------------------------------------------------------------
(* C26 *)

HasUnparsableLine(f) == \E i \in DOMAIN f.lines : "malformed" \in DOMAIN f.lines[i]

\* The logs a reading function of the store parses.
LogsReadBy(op) ==
    IF op = "load_profiles" THEN {seed, local}
    ELSE IF op \in {"load_history", "prune_missing_history_files",
                    "remove_history_entry"} THEN {history}
    ELSE {}

\* C26: a call of load_profiles, load_history, prune_missing_history_files
\* or remove_history_entry on a log with a line that cannot be parsed ends
\* with the parse error, returns nothing, and leaves the three logs exactly
\* as they were.
C26_MalformedLinePropagates ==
    [][ (\E f \in LogsReadBy(call'.op) : HasUnparsableLine(f)) =>
            /\ "raised" \in DOMAIN call'
            /\ "ret" \notin DOMAIN call'
            /\ "items" \notin DOMAIN call'
            /\ seed' = seed /\ local' = local /\ history' = history
      ]_vars

\* remove_history_entry has failed on a history log that holds an entry
\* for its argument, a malformed line and an entry after it.
C26_Witness ==
    /\ call.op = "remove_history_entry"
    /\ "raised" \in DOMAIN call
    /\ Len(history.lines) = 3
    /\ HasUnparsableLine(history)
    /\ "malformed" \notin DOMAIN history.lines[1]
    /\ "malformed" \notin DOMAIN history.lines[3]

---------------------------------------------------------------------------
(* C27 *)

AppendedTo(f, g, record) == ReadJsonl(g) = Append(ReadJsonl(f), record)

\* C27: an append by either process adds its entry after everything the
\* log held, whatever the other process appended just before; the write
\* of a rewrite leaves the log with exactly what the rewriting process
\* kept from its own read, so every entry another process appended
\* between that read and the write has fewer copies in the log after the
\* write than before it.
C27_LastWriterWins ==
    [][ /\ call'.op = "append" => AppendedTo(history, history', call'.record)
        /\ (call.op = "rewrite_read" /\ call'.op = "rewrite_read") =>
               AppendedTo(history, history', Last(call'.between))
        /\ call'.op = "rewrite_written" =>
               /\ ReadJsonl(history') = call'.kept
               /\ \A i \in DOMAIN call'.between :
                      TimesIn(ReadJsonl(history'), call'.between[i])
                          < TimesIn(ReadJsonl(history), call'.between[i])
      ]_vars

\* A rewrite that kept an entry has been written after another process
\* appended an entry the log did not hold: that entry is gone.
C27_Witness ==
    /\ call.op = "rewrite_written"
    /\ call.kept # <<>>
    /\ call.between # <<>>
    /\ \A i \in DOMAIN call.between :
           TimesIn(call.items, call.between[i]) = 0
    /\ ReadJsonl(history) = call.kept

---------------------------------------------------------------------------
(* C28 *)

\* C28: after delete_profile(id, type) load_profiles returns, for every
\* group it has, the group as it was before the call without the record
\* of id, whatever type that record was stored under and whatever type
\* was passed; no group appears and no group gains a record.
C28_DeleteMatchesIdAlone ==
    [][ call'.op = "delete_profile" =>
            LET before == load_profiles(seed, local)
                after == load_profiles(seed', local')
            IN  /\ DOMAIN after \subseteq DOMAIN before
                /\ \A t \in DOMAIN after :
                       after[t] = SelectSeq(before[t],
                                            LAMBDA r : r.id # call'.id)
      ]_vars

\* delete_profile was called with a type other than the one the profile
\* of that id was stored under: before the tombstone, the logs showed the
\* profile in another group.
C28_Witness ==
    /\ call.op = "delete_profile"
    /\ local.lines # <<>>
    /\ Last(local.lines) = [id |-> call.id, type |-> call.type, _deleted |-> TRUE]
    /\ \E r \in ReturnedWithId(load_profiles(seed, File(Front(local.lines))),
                               call.id) : r.type # call.type
    /\ ReturnedWithId(load_profiles(seed, local), call.id) = {}

---------------------------------------------------------------------------
(* C29 *)

\* The latest well-formed row of id in the two logs is a tombstone.
Tombstoned(seedRows, localRows, id) ==
    LET OfId(row) == WellFormed(row) /\ row.id = id
    IN  /\ HasRow(seedRows, localRows, OfId)
        /\ Marked(LatestRow(seedRows, localRows, OfId))

\* The ids of the seed log whose latest well-formed seed row is a record.
ShippedIds ==
    {id \in ProfileIds :
        LET OfId(row) == WellFormed(row) /\ row.id = id
        IN  /\ HasRow(SeedRows, <<>>, OfId)
            /\ ~Marked(LatestRow(SeedRows, <<>>, OfId))}

ShippedRecord(id) ==
    LatestRow(SeedRows, <<>>, LAMBDA row : WellFormed(row) /\ row.id = id)

---------------------------------------------------------------------------
(* C30 *)

\* C30: the payment selection is empty, or it names a loaded payment
\* method and the method _find_profile returns for it, the one an invoice
\* would be generated with, has the selected payment type.
C30_PaymentMatchesType ==
    \/ ui.payment = ""
    \/ /\ Found(profiles, "payment_method", ui.payment)
       /\ Get(find_profile(profiles, "payment_method", ui.payment),
              "method_type", "<None>") = ui.payment_type

====
